---- MODULE Spec2Model ----
(***************************************************************************)
(* QuizAgent: the question store (question_database.py) and the supply     *)
(* reconciliation built on it (QuizAgent.py), as a state machine.          *)
(*                                                                         *)
(* The store is the SQLite table `questions`.  A row is a record with the  *)
(* table's columns; the table is the sequence of its rows in id order.     *)
(* SQL NULL / Python None is the empty tuple None, a present value v is    *)
(* Some(v) = <<v>>.                                                        *)
(***************************************************************************)
EXTENDS Integers, Sequences, FiniteSets, TLC

VARIABLES
    questions,   \* the committed content of table `questions` (rows in id order)
    clock,       \* the value CURRENT_TIMESTAMP yields
    ret,         \* sequential client: the call that just returned, with its result
    sess,        \* concurrent sessions: each session's position and locals
    lock,        \* the session holding SQLite's write lock, or NoSession
    wtx,         \* the lock holder's uncommitted view of the table
    session_state,  \* st.session_state of the browser session taking a quiz
    user_history,   \* the content of user_quiz_history.json
    verify_log      \* the question indices verify_error_report was called with
                    \* since the quiz state was last reset

vars == <<questions, clock, ret, sess, lock, wtx, session_state, user_history, verify_log>>

----------------------------------------------------------------------------
(* Bounds of the model *)

MaxClock == 1      \* CURRENT_TIMESTAMP ranges over 0..MaxClock
MaxBatch == 2      \* longest list passed to save_questions
MaxLimit == 2      \* largest `limit` passed to get_questions
MaxTotal == 4      \* largest num_questions passed to the distribution functions

----------------------------------------------------------------------------
(* Values *)

None == <<>>
Some(v) == <<v>>
IsNone(o) == o = <<>>
Val(o) == o[1]

IntV(n) == [tag |-> "int", n |-> n, s |-> ""]
StrV(s) == [tag |-> "str", n |-> 0, s |-> s]

Difficulties == {"Easy", "Medium", "Hard"}
DifficultyOrder == <<"Easy", "Medium", "Hard">>

\* (grade, board, topic) triples the callers use
ScopeA == [grade |-> 6, board |-> "CBSE", topic |-> "math"]
ScopeB == [grade |-> 7, board |-> "ICSE", topic |-> "algebra"]
Scopes == {ScopeA, ScopeB}

Texts == {"q1", "q2"}
FourOptions == <<"a", "b", "c", "d">>

Q(text, diff, ca) ==
    [question |-> text, options |-> FourOptions, correct_answer |-> ca, difficulty |-> diff]

\* question dicts a caller passes to save_questions: well-formed ones, and ones
\* that break a CHECK constraint or make int() raise
GoodRecords ==
    {Q("q1", "Easy", IntV(1)), Q("q2", "Easy", IntV(1)), Q("q2", "Hard", IntV(1))}
BadRecords ==
    {Q("q1", "Easy", IntV(4)), Q("q2", "Easy", StrV("x"))}
InputRecords == GoodRecords \cup BadRecords

RecordsFor(scope) ==
    IF scope = ScopeA THEN InputRecords ELSE {Q("q1", "Easy", IntV(1))}

SeqsUpTo(S, n) == UNION {[1..k -> S] : k \in 0..n}

\* initialize_session_state() on a fresh session; coaching_messages, which
\* only the coaching dialog reads, is left out
initialize_session_state ==
    [questions |-> <<>>, current_question_index |-> 0, user_answers |-> <<>>,
     score |-> 0, quiz_started |-> FALSE, show_feedback |-> FALSE,
     quiz_completed |-> FALSE, user_name |-> "", coaching_active |-> FALSE,
     coaching_complete |-> FALSE, reported_questions |-> {},
     submitted_reports |-> {}, report_verification_results |-> {},
     error_report_active |-> FALSE, quiz_grade |-> None, quiz_board |-> None,
     quiz_topic |-> None]

\* names typed into "Your Name"
Users == {"ann", "Ann"}

\* user_quiz_history.json as a dict: a user's list of quiz entries, or None
\* for a user the dict has no key for.  A missing file loads as {}.
NoHistory == [u \in Users |-> None]
Batches(scope) == SeqsUpTo(RecordsFor(scope), MaxBatch)

----------------------------------------------------------------------------
(* Python helpers *)

\* int(x): an int is itself, a numeric string its value, anything else raises
py_int(v) ==
    IF v.tag = "int" THEN [ok |-> TRUE, val |-> v.n]
    ELSE IF v.s = "2" THEN [ok |-> TRUE, val |-> 2]
    ELSE [ok |-> FALSE, val |-> 0]

\* int(a / b) for b > 0: float division, then truncation toward zero
py_int_div(a, b) == IF a >= 0 THEN a \div b ELSE -((-a) \div b)

RECURSIVE SeqSum(_)
SeqSum(s) == IF s = <<>> THEN 0 ELSE s[1] + SeqSum(Tail(s))

Min(a, b) == IF a <= b THEN a ELSE b
Max(a, b) == IF a >= b THEN a ELSE b

----------------------------------------------------------------------------
(* The table and its constraints *)

SameKey(r, grade, board, topic, question) ==
    /\ r.grade = grade /\ r.board = board /\ r.topic = topic /\ r.question = question

\* CHECK(difficulty IN ('Easy','Medium','Hard')), CHECK(correct_answer 0..3)
CheckConstraints(row) ==
    /\ row.difficulty \in Difficulties
    /\ row.correct_answer >= 0 /\ row.correct_answer <= 3

\* a UNIQUE constraint that also lists the difficulty column
UniqueConflictWithDifficulty(table, row) ==
    \E i \in DOMAIN table :
       /\ SameKey(table[i], row.grade, row.board, row.topic, row.question)
       /\ table[i].difficulty = row.difficulty

\* UNIQUE(grade, board, topic, question)
UniqueConflict(table, row) ==
    \E i \in DOMAIN table : SameKey(table[i], row.grade, row.board, row.topic, row.question)

RowsWithKey(table, scope, text) ==
    {i \in DOMAIN table : SameKey(table[i], scope.grade, scope.board, scope.topic, text)}

RowsOf(table, scope) ==
    {i \in DOMAIN table :
        /\ table[i].grade = scope.grade /\ table[i].board = scope.board
        /\ table[i].topic = scope.topic}

\* the row an INSERT of the seven listed columns builds: id from AUTOINCREMENT,
\* is_valid DEFAULT 1, reported_at NULL, created_at DEFAULT CURRENT_TIMESTAMP
NewRow(table, grade, board, topic, difficulty, question, options, correct_answer, now) ==
    [id |-> Len(table) + 1, grade |-> grade, board |-> board, topic |-> topic,
     difficulty |-> difficulty, question |-> question, options |-> options,
     correct_answer |-> correct_answer, is_valid |-> Some(1),
     reported_at |-> None, created_at |-> now]

\* INSERT OR REPLACE: the conflicting row is deleted and the new one inserted
insert_or_replace(table, row) ==
    IF ~CheckConstraints(row) THEN [table |-> table, rowcount |-> 0]
    ELSE LET kept == SelectSeq(table,
                        LAMBDA r : ~SameKey(r, row.grade, row.board, row.topic, row.question))
         IN [table |-> Append(kept, row), rowcount |-> 1]

\* INSERT OR IGNORE: a row that violates a UNIQUE or CHECK constraint is skipped
\* without an error (conflict resolution IGNORE covers both), rowcount 0
insert_or_ignore(table, row) ==
    IF ~CheckConstraints(row) \/ UniqueConflict(table, row)
    THEN [table |-> table, rowcount |-> 0]
    ELSE [table |-> Append(table, row), rowcount |-> 1]

----------------------------------------------------------------------------
(* save_questions *)

SaveState(table) ==
    [table |-> table, saved_count |-> 0, skipped_count |-> 0,
     outcomes |-> <<>>, raised |-> FALSE]

\* the loop body without its try/except: an exception leaves the function
save_one_uncaught(st, q, grade, board, topic, now) ==
    LET ca == py_int(q.correct_answer) IN
    IF st.raised THEN st
    ELSE IF ~ca.ok THEN [st EXCEPT !.raised = TRUE]
    ELSE LET ins == insert_or_ignore(st.table,
                        NewRow(st.table, grade, board, topic, q.difficulty,
                               q.question, q.options, ca.val, now))
         IN IF ins.rowcount > 0
            THEN [st EXCEPT !.table = ins.table, !.saved_count = @ + 1,
                            !.outcomes = Append(@, "saved")]
            ELSE [st EXCEPT !.skipped_count = @ + 1,
                            !.outcomes = Append(@, "skipped")]

\* one iteration of `for q in questions`: int(correct_answer) may raise, which
\* `except Exception` turns into a skip; otherwise INSERT OR IGNORE and rowcount
\* decide between saved and skipped.  options is stored as its JSON text, which
\* for a list of strings is the list.
save_one(st, q, grade, board, topic, now) ==
    LET ca == py_int(q.correct_answer) IN
    IF st.raised THEN st
    ELSE IF ~ca.ok
    THEN [st EXCEPT !.skipped_count = @ + 1, !.outcomes = Append(@, "skipped")]
    ELSE LET ins == insert_or_ignore(st.table,
                        NewRow(st.table, grade, board, topic, q.difficulty,
                               q.question, q.options, ca.val, now))
         IN IF ins.rowcount > 0
            THEN [st EXCEPT !.table = ins.table, !.saved_count = @ + 1,
                            !.outcomes = Append(@, "saved")]
            ELSE [st EXCEPT !.skipped_count = @ + 1,
                            !.outcomes = Append(@, "skipped")]

RECURSIVE save_loop(_, _, _, _, _, _)
save_loop(st, qs, grade, board, topic, now) ==
    IF qs = <<>> THEN st
    ELSE save_loop(save_one(st, Head(qs), grade, board, topic, now),
                   Tail(qs), grade, board, topic, now)

\* save_questions(questions, grade, board, topic): the table after the commit
\* and the pair (saved_count, skipped_count)
save_questions(table, qs, grade, board, topic, now) ==
    save_loop(SaveState(table), qs, grade, board, topic, now)

----------------------------------------------------------------------------
(* mark_question_invalid *)

\* DELETE FROM questions WHERE <key> AND is_valid = 1
delete_valid(table, grade, board, topic, question_text, now) ==
    LET hit(r) == SameKey(r, grade, board, topic, question_text) /\ r.is_valid = Some(1)
    IN [table |-> SelectSeq(table, LAMBDA r : ~hit(r)),
        rowcount |-> Len(SelectSeq(table, hit))]

\* UPDATE ... WHERE <key>, without `AND is_valid = 1`
update_any(table, grade, board, topic, question_text, now) ==
    LET hit(r) == SameKey(r, grade, board, topic, question_text)
    IN [table |-> [i \in DOMAIN table |->
                     IF hit(table[i])
                     THEN [table[i] EXCEPT !.is_valid = Some(0), !.reported_at = Some(now)]
                     ELSE table[i]],
        rowcount |-> Len(SelectSeq(table, hit))]

\* UPDATE that sets is_valid only
update_flag_only(table, grade, board, topic, question_text, now) ==
    LET hit(r) == SameKey(r, grade, board, topic, question_text) /\ r.is_valid = Some(1)
    IN [table |-> [i \in DOMAIN table |->
                     IF hit(table[i])
                     THEN [table[i] EXCEPT !.is_valid = Some(0)]
                     ELSE table[i]],
        rowcount |-> Len(SelectSeq(table, hit))]

\* UPDATE questions SET is_valid = 0, reported_at = CURRENT_TIMESTAMP
\* WHERE grade = ? AND board = ? AND topic = ? AND question = ? AND is_valid = 1
update_invalid(table, grade, board, topic, question_text, now) ==
    LET hit(r) == SameKey(r, grade, board, topic, question_text) /\ r.is_valid = Some(1)
    IN [table |-> [i \in DOMAIN table |->
                     IF hit(table[i])
                     THEN [table[i] EXCEPT !.is_valid = Some(0), !.reported_at = Some(now)]
                     ELSE table[i]],
        rowcount |-> Len(SelectSeq(table, hit))]

\* updated = "a row with this key exists", whether or not the UPDATE changed it
mark_question_invalid_if_found(table, grade, board, topic, question_text, now) ==
    LET upd == update_invalid(table, grade, board, topic, question_text, now)
    IN [table |-> upd.table,
        updated |-> \E i \in DOMAIN table :
                       SameKey(table[i], grade, board, topic, question_text)]

\* mark_question_invalid(grade, board, topic, question_text): updated = rowcount > 0
mark_question_invalid(table, grade, board, topic, question_text, now) ==
    LET upd == update_invalid(table, grade, board, topic, question_text, now)
    IN [table |-> upd.table, updated |-> upd.rowcount > 0]

----------------------------------------------------------------------------
(* initialize_database *)

\* UPDATE questions SET is_valid = 1, on every row
revalidate_all(table) ==
    [i \in DOMAIN table |-> [table[i] EXCEPT !.is_valid = Some(1)]]

\* On an existing table CREATE TABLE IF NOT EXISTS and the two ALTER TABLE
\* statements change nothing (OperationalError is swallowed); what remains is
\* UPDATE questions SET is_valid = 1 WHERE is_valid IS NULL
initialize_database(table) ==
    [i \in DOMAIN table |->
        IF IsNone(table[i].is_valid) THEN [table[i] EXCEPT !.is_valid = Some(1)]
        ELSE table[i]]

----------------------------------------------------------------------------
(* Reads *)

\* Python truthiness of an Optional[int] / Optional[str] argument
truthy_int(o) == ~IsNone(o) /\ Val(o) # 0
truthy_str(o) == ~IsNone(o) /\ Val(o) # ""

QuestionDict(r) ==
    [question |-> r.question, options |-> r.options,
     correct_answer |-> r.correct_answer, difficulty |-> r.difficulty]

MapSeq(s, F(_)) == [i \in DOMAIN s |-> F(s[i])]

\* the orders ORDER BY RANDOM() can produce: every permutation
Orderings(s) ==
    LET n == Len(s)
        P == {p \in [1..n -> 1..n] : \A i, j \in 1..n : i # j => p[i] # p[j]}
    IN {[i \in 1..n |-> s[p[i]]] : p \in P}

\* COUNT(*) that leaves out `AND is_valid = 1`
count_questions_any(table, grade, board, topic, difficulty) ==
    IF truthy_str(difficulty)
    THEN Len(SelectSeq(table, LAMBDA r :
            /\ r.grade = grade /\ r.board = board /\ r.topic = topic
            /\ r.difficulty = Val(difficulty)))
    ELSE Len(SelectSeq(table, LAMBDA r :
            /\ r.grade = grade /\ r.board = board /\ r.topic = topic))

\* count_questions(grade, board, topic, difficulty=None)
count_questions(table, grade, board, topic, difficulty) ==
    IF truthy_str(difficulty)
    THEN Len(SelectSeq(table, LAMBDA r :
            /\ r.grade = grade /\ r.board = board /\ r.topic = topic
            /\ r.difficulty = Val(difficulty) /\ r.is_valid = Some(1)))
    ELSE Len(SelectSeq(table, LAMBDA r :
            /\ r.grade = grade /\ r.board = board /\ r.topic = topic
            /\ r.is_valid = Some(1)))

\* get_questions(grade, board, topic, difficulty, limit=None, random=False):
\* the set of lists the call can return.  limit_clause is "LIMIT n" only when
\* `limit` is truthy, so None and 0 both select without a LIMIT.
get_questions(table, grade, board, topic, difficulty, limit, random) ==
    LET rows == SelectSeq(table, LAMBDA r :
                    /\ r.grade = grade /\ r.board = board /\ r.topic = topic
                    /\ r.difficulty = difficulty /\ r.is_valid = Some(1))
        orders == IF random THEN Orderings(rows) ELSE {rows}
        cut(o) == IF truthy_int(limit)
                  THEN SubSeq(o, 1, Min(Val(limit), Len(o)))
                  ELSE o
    IN {MapSeq(cut(o), QuestionDict) : o \in orders}

ReportFilter(r, grade, board, topic) ==
    /\ r.is_valid = Some(0)
    /\ (truthy_int(grade) => r.grade = Val(grade))
    /\ (truthy_str(board) => r.board = Val(board))
    /\ (truthy_str(topic) => r.topic = Val(topic))

\* get_invalid_questions_report(grade=None, board=None, topic=None): the rows
\* with is_valid = 0 that pass the given filters, ORDER BY reported_at DESC
\* (rows with equal reported_at in any order)
get_invalid_questions_report(table, grade, board, topic) ==
    LET rows == SelectSeq(table, LAMBDA r : ReportFilter(r, grade, board, topic))
    IN {o \in Orderings(rows) :
          \A i, j \in DOMAIN o :
             i < j => Val(o[i].reported_at) >= Val(o[j].reported_at)}

\* count_invalid_questions(grade=None, board=None, topic=None)
count_invalid_questions(table, grade, board, topic) ==
    Len(SelectSeq(table, LAMBDA r : ReportFilter(r, grade, board, topic)))

----------------------------------------------------------------------------
(* Difficulty targets and partial fulfilment *)

\* each difficulty rounded on its own
distribution_counts_rounded(num_questions, difficulty_distribution) ==
    [Easy   |-> py_int_div(num_questions * difficulty_distribution["Easy"], 100),
     Medium |-> py_int_div(num_questions * difficulty_distribution["Medium"], 100),
     Hard   |-> py_int_div(num_questions * difficulty_distribution["Hard"], 100)]

\* easy_count = int(num_questions * difficulty_distribution["Easy"] / 100)
\* medium_count = int(num_questions * difficulty_distribution["Medium"] / 100)
\* hard_count = num_questions - easy_count - medium_count
\* (the float quotient of integers this small truncates to the integer quotient)
distribution_counts(num_questions, difficulty_distribution) ==
    LET easy_count == py_int_div(num_questions * difficulty_distribution["Easy"], 100)
        medium_count == py_int_div(num_questions * difficulty_distribution["Medium"], 100)
    IN [Easy |-> easy_count, Medium |-> medium_count,
        Hard |-> num_questions - easy_count - medium_count]

\* one round of the loop of get_partial_questions_and_missing_counts; `limit`
\* is the limit the round passes to get_questions, None when it makes no call
partial_for(table, grade, board, topic, difficulty, count) ==
    IF count > 0
    THEN LET available == count_questions(table, grade, board, topic, Some(difficulty))
         IN IF available >= count
            THEN {[qs |-> l, missing |-> 0, limit |-> Some(count)] :
                    l \in get_questions(table, grade, board, topic, difficulty,
                                        Some(count), TRUE)}
            ELSE {[qs |-> l, missing |-> count - available, limit |-> Some(available)] :
                    l \in get_questions(table, grade, board, topic, difficulty,
                                        Some(available), TRUE)}
    ELSE {[qs |-> <<>>, missing |-> 0, limit |-> None]}

\* get_partial_questions_and_missing_counts(grade, board, topic,
\* difficulty_distribution, num_questions): the (all_questions, missing_counts)
\* pairs the call can return when nothing else touches the table meanwhile,
\* each with the limits of its get_questions calls
get_partial_questions_and_missing_counts(table, grade, board, topic, difficulty_distribution, num_questions) ==
    LET c == distribution_counts(num_questions, difficulty_distribution)
    IN {[all_questions |-> e.qs \o m.qs \o h.qs,
         missing_counts |-> [Easy |-> e.missing, Medium |-> m.missing, Hard |-> h.missing],
         limits |-> [Easy |-> e.limit, Medium |-> m.limit, Hard |-> h.limit]] :
          e \in partial_for(table, grade, board, topic, "Easy", c["Easy"]),
          m \in partial_for(table, grade, board, topic, "Medium", c["Medium"]),
          h \in partial_for(table, grade, board, topic, "Hard", c["Hard"])}

----------------------------------------------------------------------------
(* The store used by one client at a time: every call runs to completion,    *)
(* leaves its arguments and result in ret, and the client takes the result   *)
(* (Return) before the next call.  Spec has the client write, count and      *)
(* report; SpecRead has it write and retrieve.                               *)

NoCall == [op |-> "none"]
NoSession == "nobody"
Sessions == {"s1", "s2"}
Idle == [pc |-> "idle"]

OptDifficulties == {None} \cup {Some(d) : d \in Difficulties}
Limits == {None} \cup {Some(n) : n \in 0..MaxLimit}
ReportFilters ==
    {[grade |-> None, board |-> None, topic |-> None]}
    \cup {[grade |-> Some(sc.grade), board |-> Some(sc.board), topic |-> Some(sc.topic)] :
            sc \in Scopes}
Distributions ==
    {[Easy |-> 50, Medium |-> 30, Hard |-> 20], [Easy |-> 100, Medium |-> 0, Hard |-> 0]}

Init ==
    /\ questions = <<>>
    /\ clock = 0
    /\ ret = NoCall
    /\ sess = [s \in Sessions |-> Idle]
    /\ lock = NoSession
    /\ wtx = <<>>
    /\ session_state = initialize_session_state
    /\ user_history = NoHistory
    /\ verify_log = <<>>

Tick ==
    /\ ret = NoCall
    /\ clock < MaxClock
    /\ clock' = clock + 1
    /\ UNCHANGED <<questions, ret, sess, lock, wtx, session_state, user_history, verify_log>>

Return ==
    /\ ret # NoCall
    /\ ret.op = "generate_questions" => ret.pc = "returned"
    /\ ret' = NoCall
    /\ UNCHANGED <<questions, clock, sess, lock, wtx, session_state, user_history, verify_log>>

SaveQuestions ==
    /\ ret = NoCall
    /\ \E scope \in Scopes : \E qs \in Batches(scope) :
        LET r == save_questions(questions, qs, scope.grade, scope.board, scope.topic, clock)
        IN /\ questions' = r.table
           /\ ret' = [op |-> "save_questions", scope |-> scope,
                      texts |-> [i \in DOMAIN qs |-> qs[i].question],
                      outcomes |-> r.outcomes, saved_count |-> r.saved_count,
                      skipped_count |-> r.skipped_count, raised |-> r.raised]
           /\ UNCHANGED <<clock, sess, lock, wtx, session_state, user_history, verify_log>>

MarkQuestionInvalid ==
    /\ ret = NoCall
    /\ \E scope \in Scopes : \E text \in Texts :
        LET r == mark_question_invalid(questions, scope.grade, scope.board,
                                       scope.topic, text, clock)
        IN /\ questions' = r.table
           /\ ret' = [op |-> "mark_question_invalid", scope |-> scope,
                      question_text |-> text, updated |-> r.updated]
           /\ UNCHANGED <<clock, sess, lock, wtx, session_state, user_history, verify_log>>

InitializeDatabase ==
    /\ ret = NoCall
    /\ questions' = initialize_database(questions)
    /\ ret' = [op |-> "initialize_database"]
    /\ UNCHANGED <<clock, sess, lock, wtx, session_state, user_history, verify_log>>

CountQuestions ==
    /\ ret = NoCall
    /\ \E scope \in Scopes : \E difficulty \in OptDifficulties :
        /\ ret' = [op |-> "count_questions", scope |-> scope, difficulty |-> difficulty,
                   count |-> count_questions(questions, scope.grade, scope.board,
                                             scope.topic, difficulty)]
        /\ UNCHANGED <<questions, clock, sess, lock, wtx, session_state, user_history, verify_log>>

GetQuestions ==
    /\ ret = NoCall
    /\ \E scope \in Scopes : \E difficulty \in Difficulties :
       \E limit \in Limits : \E random \in BOOLEAN :
       \E result \in get_questions(questions, scope.grade, scope.board, scope.topic,
                                   difficulty, limit, random) :
        /\ ret' = [op |-> "get_questions", scope |-> scope, difficulty |-> difficulty,
                   limit |-> limit, random |-> random, result |-> result]
        /\ UNCHANGED <<questions, clock, sess, lock, wtx, session_state, user_history, verify_log>>

GetInvalidQuestionsReport ==
    /\ ret = NoCall
    /\ \E f \in ReportFilters :
       \E report \in get_invalid_questions_report(questions, f.grade, f.board, f.topic) :
        /\ ret' = [op |-> "get_invalid_questions_report", filter |-> f, report |-> report]
        /\ UNCHANGED <<questions, clock, sess, lock, wtx, session_state, user_history, verify_log>>

CountInvalidQuestions ==
    /\ ret = NoCall
    /\ \E f \in ReportFilters :
        /\ ret' = [op |-> "count_invalid_questions", filter |-> f,
                   count |-> count_invalid_questions(questions, f.grade, f.board, f.topic)]
        /\ UNCHANGED <<questions, clock, sess, lock, wtx, session_state, user_history, verify_log>>

GetPartialQuestionsAndMissingCounts ==
    /\ ret = NoCall
    /\ \E scope \in Scopes : \E dist \in Distributions : \E num \in 1..MaxTotal :
       \E r \in get_partial_questions_and_missing_counts(
                 questions, scope.grade, scope.board, scope.topic, dist, num) :
        /\ ret' = [op |-> "get_partial_questions_and_missing_counts", scope |-> scope,
                   difficulty_distribution |-> dist, num_questions |-> num,
                   all_questions |-> r.all_questions, missing_counts |-> r.missing_counts]
        /\ UNCHANGED <<questions, clock, sess, lock, wtx, session_state, user_history, verify_log>>

\* the writes, the counts and the report
Next ==
    \/ Tick
    \/ Return
    \/ SaveQuestions
    \/ MarkQuestionInvalid
    \/ InitializeDatabase
    \/ CountQuestions
    \/ GetInvalidQuestionsReport
    \/ CountInvalidQuestions

\* the writes and the retrievals
NextRead ==
    \/ Tick
    \/ Return
    \/ SaveQuestions
    \/ MarkQuestionInvalid
    \/ GetQuestions
    \/ GetPartialQuestionsAndMissingCounts

Spec == Init /\ [][Next]_vars

SpecRead == Init /\ [][NextRead]_vars

----------------------------------------------------------------------------
(* The difficulty targets as a function of its inputs: the initial state     *)
(* holds a total and a percentage triple, as the three sliders (0..100 in    *)
(* steps of 5, not forced to sum to 100 by the store functions) and the      *)
(* number input supply them.                                                 *)

MaxNum == 20       \* largest total drawn (the number input stops at 20)
PctSteps == 20     \* slider positions above 0: 100 / step 5
PctStep == 5
Percentages == {PctStep * k : k \in 0..PctSteps}
PctTriples == [Difficulties -> Percentages]

InitTargets ==
    /\ questions = <<>>
    /\ clock = 0
    /\ ret \in {[op |-> "targets_input", num_questions |-> n,
                 difficulty_distribution |-> d] : n \in 0..MaxNum, d \in PctTriples}
    /\ sess = [s \in Sessions |-> Idle]
    /\ lock = NoSession
    /\ wtx = <<>>
    /\ session_state = initialize_session_state
    /\ user_history = NoHistory
    /\ verify_log = <<>>

ComputeTargets ==
    /\ ret.op = "targets_input"
    /\ ret' = [op |-> "targets", num_questions |-> ret.num_questions,
               difficulty_distribution |-> ret.difficulty_distribution,
               counts |-> distribution_counts(ret.num_questions,
                                              ret.difficulty_distribution)]
    /\ UNCHANGED <<questions, clock, sess, lock, wtx, session_state, user_history, verify_log>>

SpecTargets == InitTargets /\ [][ComputeTargets]_vars

----------------------------------------------------------------------------
(* The store shared by two sessions.  Each session has its own connection.   *)
(* A statement that writes starts the connection's transaction and takes     *)
(* SQLite's write lock, which the connection keeps until conn.commit(); a    *)
(* second writer waits in the busy handler meanwhile (the wait is taken to   *)
(* end before sqlite3's 5 s timeout).  The lock holder works on its own view *)
(* wtx; every other connection reads the committed table.  One step is one   *)
(* statement: an execute(), or the commit that ends the call.                *)

Active(s) == sess[s].pc \notin {"idle", "done"}
Other(s) == CHOOSE o \in Sessions : o # s
View(s) == IF lock = s THEN wtx ELSE questions
StoredTexts(table, scope) ==
    {table[i].question : i \in RowsOf(table, scope)}

\* lists the two sessions pass to save_questions
ConcBatches ==
    {<<Q("q1", "Easy", IntV(1))>>,
     <<Q("q2", "Easy", IntV(1))>>,
     <<Q("q1", "Easy", IntV(1)), Q("q2", "Easy", IntV(1))>>,
     <<Q("q2", "Easy", IntV(1)), Q("q1", "Medium", IntV(1))>>,
     <<Q("q1", "Easy", IntV(1)), Q("q1", "Easy", IntV(1))>>,
     <<Q("q1", "easy", IntV(1)), Q("q1", "Easy", IntV(1))>>,
     <<Q("q2", "Easy", StrV("x"))>>}

\* a call starts: the other session's call, if one is running, overlaps it
Start(s, call) ==
    sess' = [t \in Sessions |->
               IF t = s THEN call
               ELSE IF Active(t) THEN [sess[t] EXCEPT !.overlapped = TRUE]
               ELSE sess[t]]

CSaveCall(s) ==
    /\ sess[s].pc = "idle"
    /\ \E qs \in ConcBatches :
          Start(s, [pc |-> "save_loop", op |-> "save_questions", scope |-> ScopeA,
                    qs |-> qs, i |-> 1, saved_count |-> 0, skipped_count |-> 0,
                    outcomes |-> <<>>, raised |-> FALSE,
                    pre |-> StoredTexts(questions, ScopeA),
                    overlapped |-> Active(Other(s))])
    /\ UNCHANGED <<questions, clock, ret, lock, wtx, session_state, user_history, verify_log>>

\* one iteration of the loop: the INSERT needs the write lock, int() raising
\* before the execute() does not
CSaveStep(s) ==
    LET c == sess[s]
        q == c.qs[c.i]
        writes == py_int(q.correct_answer).ok
        st == [table |-> View(s), saved_count |-> c.saved_count,
               skipped_count |-> c.skipped_count, outcomes |-> c.outcomes,
               raised |-> c.raised]
        r == save_one(st, q, c.scope.grade, c.scope.board, c.scope.topic, clock)
    IN /\ c.pc = "save_loop"
       /\ c.i <= Len(c.qs)
       /\ writes => lock \in {NoSession, s}
       /\ sess' = [sess EXCEPT ![s] =
                     [c EXCEPT !.i = @ + 1, !.saved_count = r.saved_count,
                               !.skipped_count = r.skipped_count,
                               !.outcomes = r.outcomes, !.raised = r.raised]]
       /\ IF writes
          THEN lock' = s /\ wtx' = r.table
          ELSE UNCHANGED <<lock, wtx, session_state, user_history, verify_log>>
       /\ UNCHANGED <<questions, clock, ret, session_state, user_history, verify_log>>

\* conn.commit(); conn.close(); return saved_count, skipped_count
CSaveCommit(s) ==
    /\ sess[s].pc = "save_loop"
    /\ sess[s].i > Len(sess[s].qs)
    /\ sess' = [sess EXCEPT ![s].pc = "done"]
    /\ IF lock = s
       THEN questions' = wtx /\ lock' = NoSession /\ wtx' = <<>>
       ELSE UNCHANGED <<questions, lock, wtx, session_state, user_history, verify_log>>
    /\ UNCHANGED <<clock, ret, session_state, user_history, verify_log>>

CMarkCall(s) ==
    /\ sess[s].pc = "idle"
    /\ \E text \in Texts :
          Start(s, [pc |-> "mark_update", op |-> "mark_question_invalid",
                    scope |-> ScopeA, question_text |-> text, updated |-> FALSE,
                    at |-> None,
                    pre_valid |-> \E i \in RowsWithKey(questions, ScopeA, text) :
                                     questions[i].is_valid = Some(1),
                    overlapped |-> Active(Other(s))])
    /\ UNCHANGED <<questions, clock, ret, lock, wtx, session_state, user_history, verify_log>>

\* cursor.execute(UPDATE ...); updated = cursor.rowcount > 0
CMarkUpdate(s) ==
    LET c == sess[s]
        r == mark_question_invalid(questions, c.scope.grade, c.scope.board,
                                   c.scope.topic, c.question_text, clock)
    IN /\ c.pc = "mark_update"
       /\ lock = NoSession
       /\ lock' = s
       /\ wtx' = r.table
       /\ sess' = [sess EXCEPT ![s] =
                     [c EXCEPT !.pc = "mark_commit", !.updated = r.updated,
                               !.at = Some(clock)]]
       /\ UNCHANGED <<questions, clock, ret, session_state, user_history, verify_log>>

\* conn.commit(); conn.close(); return updated
CMarkCommit(s) ==
    /\ sess[s].pc = "mark_commit"
    /\ lock = s
    /\ questions' = wtx
    /\ lock' = NoSession
    /\ wtx' = <<>>
    /\ sess' = [sess EXCEPT ![s].pc = "done"]
    /\ UNCHANGED <<clock, ret, session_state, user_history, verify_log>>

\* count_questions: one SELECT on the committed table
CCountQuestions(s) ==
    /\ sess[s].pc = "idle"
    /\ \E difficulty \in {None} :
          Start(s, [pc |-> "done", op |-> "count_questions", scope |-> ScopeA,
                    difficulty |-> difficulty,
                    count |-> count_questions(View(s), ScopeA.grade, ScopeA.board,
                                              ScopeA.topic, difficulty),
                    overlapped |-> Active(Other(s))])
    /\ UNCHANGED <<questions, clock, ret, lock, wtx, session_state, user_history, verify_log>>

\* get_questions: one SELECT on the committed table
CGetQuestions(s) ==
    /\ sess[s].pc = "idle"
    /\ \E result \in get_questions(View(s), ScopeA.grade, ScopeA.board, ScopeA.topic,
                                   "Easy", Some(MaxLimit), FALSE) :
          Start(s, [pc |-> "done", op |-> "get_questions", scope |-> ScopeA,
                    difficulty |-> "Easy", limit |-> Some(MaxLimit), result |-> result,
                    overlapped |-> Active(Other(s))])
    /\ UNCHANGED <<questions, clock, ret, lock, wtx, session_state, user_history, verify_log>>

\* the caller takes the result
CReturn(s) ==
    /\ sess[s].pc = "done"
    /\ sess' = [sess EXCEPT ![s] = Idle]
    /\ UNCHANGED <<questions, clock, ret, lock, wtx, session_state, user_history, verify_log>>

CTick ==
    /\ clock < MaxClock
    /\ clock' = clock + 1
    /\ UNCHANGED <<questions, ret, sess, lock, wtx, session_state, user_history, verify_log>>

NextConc ==
    \/ CTick
    \/ \E s \in Sessions :
          \/ CSaveCall(s)
          \/ CSaveStep(s)
          \/ CSaveCommit(s)
          \/ CMarkCall(s)
          \/ CMarkUpdate(s)
          \/ CMarkCommit(s)
          \/ CCountQuestions(s)
          \/ CGetQuestions(s)
          \/ CReturn(s)

SpecConc == Init /\ [][NextConc]_vars

----------------------------------------------------------------------------
(* generate_questions (QuizAgent.py): one quiz request.  The frame of the    *)
(* call is kept in ret; pc is the place the call has reached: "called",      *)
(* "planned" (line 171), "prompted" (line 240, the backend has the prompt)   *)
(* and "returned".                                                           *)

MaxGenNum == 2     \* largest num_questions of a quiz request
MaxResp == 2       \* longest list the generation backend answers with

\* q.get("correct_answer") of a dict without the key
NoneV == [tag |-> "none", n |-> 0, s |-> ""]

\* str.lower(), str.strip() and str.upper() on the strings the model uses
py_lower(s) ==
    CASE s = "Q1 " -> "q1 "
      [] s = " Q2" -> " q2"
      [] s = " E1" -> " e1"
      [] s = "B" -> "b"
      [] s = "Math" -> "math"
      [] OTHER -> s

py_strip(s) ==
    CASE s = "Q1 " -> "Q1"
      [] s = "q1 " -> "q1"
      [] s = " Q2" -> "Q2"
      [] s = " q2" -> "q2"
      [] s = " E1" -> "E1"
      [] s = " e1" -> "e1"
      [] OTHER -> s

py_upper(s) ==
    CASE s = "b" -> "B"
      [] s = "x" -> "X"
      [] OTHER -> s

\* ord(c): the code point of a one-character string, TypeError for any other
py_ord(s) ==
    CASE s = "A" -> [ok |-> TRUE, val |-> 65]
      [] s = "B" -> [ok |-> TRUE, val |-> 66]
      [] s = "C" -> [ok |-> TRUE, val |-> 67]
      [] s = "D" -> [ok |-> TRUE, val |-> 68]
      [] s = "X" -> [ok |-> TRUE, val |-> 88]
      [] s = "2" -> [ok |-> TRUE, val |-> 50]
      [] OTHER -> [ok |-> FALSE, val |-> 0]

\* set(q.lower().strip() for q in previous_questions), empty for None and []
previous_questions_set(previous_questions) ==
    {py_strip(py_lower(previous_questions[i])) : i \in DOMAIN previous_questions}

\* a filter that compares the texts as they are
filter_user_questions_exact(questions_list, previous_set) ==
    IF previous_set = {} THEN questions_list
    ELSE SelectSeq(questions_list, LAMBDA q : q.question \notin previous_set)

\* filter_user_questions(questions_list)
filter_user_questions(questions_list, previous_set) ==
    IF previous_set = {} THEN questions_list
    ELSE SelectSeq(questions_list,
                   LAMBDA q : py_strip(py_lower(q.question)) \notin previous_set)

\* filtered_by_difficulty: the number of questions of each difficulty
filtered_by_difficulty(questions_list) ==
    [d \in Difficulties |-> Len(SelectSeq(questions_list, LAMBDA q : q.difficulty = d))]

\* a multiplier that ignores the seen set
multiplier_one(previous_set) == 1

\* multiplier = 2 if previous_questions_set else 1
multiplier_for(previous_set) == IF previous_set # {} THEN 2 ELSE 1

\* missing counts taken from the store's answer, not recomputed after filtering
plan_unfiltered_counts(table, grade, board, topic, num_questions, difficulty_distribution, previous_questions) ==
    LET previous_set == previous_questions_set(previous_questions)
        multiplier == multiplier_for(previous_set)
    IN {[sampled |-> r.all_questions, limits |-> r.limits,
         partial_questions |-> filter_user_questions(r.all_questions, previous_set),
         missing_counts |-> r.missing_counts] :
          r \in get_partial_questions_and_missing_counts(
                   table, grade, board, topic, difficulty_distribution,
                   num_questions * multiplier)}

\* lines 120-171: the store is sampled for num_questions * multiplier, the
\* sample is filtered, and the missing counts are recomputed from what is left
plan(table, grade, board, topic, num_questions, difficulty_distribution, previous_questions) ==
    LET previous_set == previous_questions_set(previous_questions)
        multiplier == multiplier_for(previous_set)
        targets == distribution_counts(num_questions, difficulty_distribution)
    IN {LET partial == filter_user_questions(r.all_questions, previous_set)
            got == filtered_by_difficulty(partial)
        IN [sampled |-> r.all_questions, limits |-> r.limits,
            partial_questions |-> partial,
            missing_counts |-> [d \in Difficulties |-> Max(0, targets[d] - got[d])]] :
          r \in get_partial_questions_and_missing_counts(
                   table, grade, board, topic, difficulty_distribution,
                   num_questions * multiplier)}

\* a total that leaves the Hard questions out
prompt_without_hard(missing_counts) ==
    [total_to_generate |-> missing_counts["Easy"] + missing_counts["Medium"],
     Easy |-> missing_counts["Easy"], Medium |-> missing_counts["Medium"],
     Hard |-> missing_counts["Hard"]]

\* the counts written into the prompt (lines 184-187, 207-213)
prompt_for(missing_counts) ==
    [total_to_generate |-> missing_counts["Easy"] + missing_counts["Medium"]
                             + missing_counts["Hard"],
     Easy |-> missing_counts["Easy"], Medium |-> missing_counts["Medium"],
     Hard |-> missing_counts["Hard"]]

\* lines 265-268: a str goes through ord(upper) - ord("A"), then int()
normalize_correct_answer(v) ==
    IF v.tag = "str"
    THEN LET o == py_ord(py_upper(v.s))
         IN IF o.ok THEN [ok |-> TRUE, val |-> o.val - 65] ELSE [ok |-> FALSE, val |-> 0]
    ELSE py_int(v)

\* the loop of lines 264-268 over the whole parsed list: the normalized list,
\* or the exception of the first record that raises
RECURSIVE normalize_all(_)
normalize_all(qs) ==
    IF qs = <<>> THEN [ok |-> TRUE, list |-> <<>>]
    ELSE LET ca == normalize_correct_answer(Head(qs).correct_answer)
             rest == normalize_all(Tail(qs))
         IN IF ca.ok /\ rest.ok
            THEN [ok |-> TRUE,
                  list |-> <<[Head(qs) EXCEPT !.correct_answer = ca.val]>> \o rest.list]
            ELSE [ok |-> FALSE, list |-> <<>>]

\* questions[:total_to_generate] without the slice
truncate_none(qs, n) == qs

\* questions[:n] for n >= 0
truncate(qs, n) == SubSeq(qs, 1, Min(n, Len(qs)))

\* list.sort(key = difficulty_order.get(difficulty, 0)): stable, an unknown
\* difficulty sorts with Easy
sort_by_difficulty(qs) ==
    SelectSeq(qs, LAMBDA q : q.difficulty \notin {"Medium", "Hard"})
    \o SelectSeq(qs, LAMBDA q : q.difficulty = "Medium")
    \o SelectSeq(qs, LAMBDA q : q.difficulty = "Hard")

\* the dicts handed to save_questions carry the normalized int
AsSaved(qs) == [i \in DOMAIN qs |-> [qs[i] EXCEPT !.correct_answer = IntV(@)]]

\* save_questions called on the whole parsed list, the slice taken afterwards
respond_persist_all(table, grade, board, topic, num_questions, partial_questions, total_to_generate, response, now) ==
    IF response.kind = "raises"
    THEN [table |-> table, generated_questions |-> <<>>, result |-> <<>>,
          outcome |-> "error"]
    ELSE IF response.kind = "invalid_json"
    THEN [table |-> table, generated_questions |-> <<>>, result |-> <<>>,
          outcome |-> "json_error"]
    ELSE LET parsed == normalize_all(response.items) IN
         IF ~parsed.ok
         THEN [table |-> table, generated_questions |-> <<>>, result |-> <<>>,
               outcome |-> "error"]
         ELSE LET generated_questions == truncate(parsed.list, total_to_generate)
                  saved == IF parsed.list # <<>>
                           THEN save_questions(table, AsSaved(parsed.list),
                                               grade, board, topic, now).table
                           ELSE table
                  all_questions == sort_by_difficulty(partial_questions \o generated_questions)
              IN [table |-> saved, generated_questions |-> generated_questions,
                  result |-> truncate(all_questions, num_questions),
                  outcome |-> "generated"]

\* lines 242-300, given what the backend did: the table after the call, the
\* generated list and the list returned
respond(table, grade, board, topic, num_questions, partial_questions, total_to_generate, response, now) ==
    IF response.kind = "raises"
    THEN [table |-> table, generated_questions |-> <<>>, result |-> <<>>,
          outcome |-> "error"]
    ELSE IF response.kind = "invalid_json"
    THEN [table |-> table, generated_questions |-> <<>>, result |-> <<>>,
          outcome |-> "json_error"]
    ELSE LET parsed == normalize_all(response.items) IN
         IF ~parsed.ok
         THEN [table |-> table, generated_questions |-> <<>>, result |-> <<>>,
               outcome |-> "error"]
         ELSE LET generated_questions == truncate(parsed.list, total_to_generate)
                  saved == IF generated_questions # <<>>
                           THEN save_questions(table, AsSaved(generated_questions),
                                               grade, board, topic, now).table
                           ELSE table
                  all_questions == sort_by_difficulty(partial_questions \o generated_questions)
              IN [table |-> saved, generated_questions |-> generated_questions,
                  result |-> truncate(all_questions, num_questions),
                  outcome |-> "generated"]

\* what the backend can answer with
GenOptions(q, options) == [q EXCEPT !.options = options]
GenRecords ==
    {Q("q1", "Easy", IntV(0)),
     Q("Q1 ", "Hard", StrV("b")),
     Q("q2", "Hard", StrV("B")),
     Q("q2", "Easy", StrV("2")),
     Q("q2", "Hard", IntV(7)),
     Q("q2", "Medium", NoneV),
     GenOptions(Q("q2", "Easy", IntV(1)), <<"a", "b">>)}
Responses ==
    {[kind |-> "list", items |-> l] : l \in SeqsUpTo(GenRecords, MaxResp)}
    \cup {[kind |-> "object", items |-> <<q>>] : q \in GenRecords}
    \cup {[kind |-> "invalid_json", items |-> <<>>], [kind |-> "raises", items |-> <<>>]}

\* previous_questions of the user, as the history file gives them
PreviousLists == {<<>>, <<"Q1 ">>, <<" Q2">>}

NoCounts == [d \in Difficulties |-> 0]
NoLimits == [d \in Difficulties |-> None]

Frame(scope, num_questions, difficulty_distribution, previous_questions, api_key) ==
    [op |-> "generate_questions", pc |-> "called", scope |-> scope,
     num_questions |-> num_questions,
     difficulty_distribution |-> difficulty_distribution,
     previous_questions |-> previous_questions, api_key |-> api_key,
     sampled |-> <<>>, limits |-> NoLimits, partial_questions |-> <<>>,
     missing_counts |-> NoCounts, prompt |-> None, response |-> None,
     generated_questions |-> <<>>, result |-> <<>>, outcome |-> "running"]

GenerateQuestions ==
    /\ ret = NoCall
    /\ \E num \in 1..MaxGenNum : \E dist \in Distributions :
       \E previous \in PreviousLists : \E api_key \in BOOLEAN :
        /\ ret' = Frame(ScopeA, num, dist, previous, api_key)
        /\ UNCHANGED <<questions, clock, sess, lock, wtx, session_state, user_history, verify_log>>

Plan ==
    /\ ret # NoCall
    /\ ret.op = "generate_questions" /\ ret.pc = "called"
    /\ \E p \in plan(questions, ret.scope.grade, ret.scope.board, ret.scope.topic,
                     ret.num_questions, ret.difficulty_distribution,
                     ret.previous_questions) :
        ret' = [ret EXCEPT !.pc = "planned", !.sampled = p.sampled, !.limits = p.limits,
                           !.partial_questions = p.partial_questions,
                           !.missing_counts = p.missing_counts]
    /\ UNCHANGED <<questions, clock, sess, lock, wtx, session_state, user_history, verify_log>>

\* lines 171-240 without the two returns taken when nothing is missing
decide_always_prompts(partial_questions, missing_counts, num_questions, api_key) ==
    LET p == prompt_for(missing_counts)
    IN IF ~api_key
       THEN [pc |-> "returned", outcome |-> "no_key", prompt |-> None,
             result |-> partial_questions]
       ELSE [pc |-> "prompted", outcome |-> "running", prompt |-> Some(p),
             result |-> <<>>]

\* lines 171-240: return from the store, return without a key, or prompt
decide(partial_questions, missing_counts, num_questions, api_key) ==
    LET p == prompt_for(missing_counts)
        total_missing == missing_counts["Easy"] + missing_counts["Medium"]
                           + missing_counts["Hard"]
    IN IF total_missing = 0 /\ Len(partial_questions) >= num_questions
       THEN [pc |-> "returned", outcome |-> "store", prompt |-> None,
             result |-> truncate(partial_questions, num_questions)]
       ELSE IF ~api_key
       THEN [pc |-> "returned", outcome |-> "no_key", prompt |-> None,
             result |-> partial_questions]
       ELSE IF p.total_to_generate = 0
       THEN [pc |-> "returned", outcome |-> "store", prompt |-> None,
             result |-> truncate(partial_questions, num_questions)]
       ELSE [pc |-> "prompted", outcome |-> "running", prompt |-> Some(p),
             result |-> <<>>]

Decide ==
    /\ ret # NoCall
    /\ ret.op = "generate_questions" /\ ret.pc = "planned"
    /\ LET d == decide(ret.partial_questions, ret.missing_counts, ret.num_questions,
                       ret.api_key)
       IN ret' = [ret EXCEPT !.pc = d.pc, !.outcome = d.outcome, !.prompt = d.prompt,
                             !.result = d.result]
    /\ UNCHANGED <<questions, clock, sess, lock, wtx, session_state, user_history, verify_log>>

Respond ==
    /\ ret # NoCall
    /\ ret.op = "generate_questions" /\ ret.pc = "prompted"
    /\ \E response \in Responses :
        LET r == respond(questions, ret.scope.grade, ret.scope.board, ret.scope.topic,
                         ret.num_questions, ret.partial_questions,
                         Val(ret.prompt).total_to_generate, response, clock)
        IN /\ questions' = r.table
           /\ ret' = [ret EXCEPT !.pc = "returned", !.response = Some(response),
                                 !.generated_questions = r.generated_questions,
                                 !.result = r.result, !.outcome = r.outcome]
    /\ UNCHANGED <<clock, sess, lock, wtx, session_state, user_history, verify_log>>

\* quiz requests of one client, who between requests may have a question
\* of the store invalidated
NextGen ==
    \/ GenerateQuestions
    \/ Plan
    \/ Decide
    \/ Respond
    \/ Return
    \/ MarkQuestionInvalid

SpecGen == Init /\ [][NextGen]_vars

----------------------------------------------------------------------------
(* The plan and the prompt as a function of the store and the request: the   *)
(* initial state holds a store with some valid questions of each difficulty  *)
(* and a request that has just been made; one of the stores and requests is  *)
(* the end-to-end scenario of 5 Easy and 3 Medium questions.                 *)

MaxEasyStored == 3
MaxMediumStored == 1
MaxHardStored == 1

ScopeEx == [grade |-> 6, board |-> "CBSE", topic |-> "arithmetic"]

TextOf(difficulty, i) ==
    (CASE difficulty = "Easy" -> "e" [] difficulty = "Medium" -> "m" [] OTHER -> "h")
    \o ToString(i)

\* the table after save_questions stored e Easy, m Medium and h Hard questions
\* and then x more Easy ones, which mark_question_invalid invalidated
StoreOf(e, m, h, x) ==
    LET difficulty_of(i) ==
            IF i <= e THEN "Easy" ELSE IF i <= e + m THEN "Medium"
            ELSE IF i <= e + m + h THEN "Hard" ELSE "Easy"
        index_of(i) ==
            IF i <= e THEN i ELSE IF i <= e + m THEN i - e
            ELSE IF i <= e + m + h THEN i - e - m ELSE 0
    IN [i \in 1..(e + m + h + x) |->
          [id |-> i, grade |-> ScopeEx.grade, board |-> ScopeEx.board,
           topic |-> ScopeEx.topic, difficulty |-> difficulty_of(i),
           question |-> TextOf(difficulty_of(i), index_of(i)), options |-> FourOptions,
           correct_answer |-> 0,
           is_valid |-> IF i <= e + m + h THEN Some(1) ELSE Some(0),
           reported_at |-> IF i <= e + m + h THEN None ELSE Some(0),
           created_at |-> 0]]

PlanStores ==
    {StoreOf(e, m, h, x) : e \in 0..MaxEasyStored, m \in 0..MaxMediumStored,
                           h \in 0..MaxHardStored, x \in 0..1}
PlanNums == {1, 2, 3, 10}
PlanPrevious == {<<>>, <<" E1">>, <<"zz">>}

\* 5 Easy, 3 Medium and no Hard valid questions, asked for 10 at 50/30/20
ExampleStore == StoreOf(5, 3, 0, 0)
ExampleRequests ==
    {Frame(ScopeEx, 10, [Easy |-> 50, Medium |-> 30, Hard |-> 20], previous, api_key) :
        previous \in PlanPrevious, api_key \in BOOLEAN}

InitPlan ==
    /\ \/ /\ questions \in PlanStores
          /\ ret \in {Frame(ScopeEx, num, dist, previous, api_key) :
                        num \in PlanNums, dist \in Distributions,
                        previous \in PlanPrevious, api_key \in BOOLEAN}
       \/ /\ questions = ExampleStore
          /\ ret \in ExampleRequests
    /\ clock = 0
    /\ sess = [s \in Sessions |-> Idle]
    /\ lock = NoSession
    /\ wtx = <<>>
    /\ session_state = initialize_session_state
    /\ user_history = NoHistory
    /\ verify_log = <<>>

NextPlan ==
    \/ Plan
    \/ Decide

SpecPlan == InitPlan /\ [][NextPlan]_vars

----------------------------------------------------------------------------
(* The user history file (QuizAgent.py, lines 37-93) *)

QuizEntry(grade, board, topic, question_texts, now) ==
    [grade |-> grade, board |-> board, topic |-> topic,
     questions |-> question_texts, timestamp |-> now]

\* the loop with the topics compared as they are
RECURSIVE collect_previous_exact_topic(_, _, _, _)
collect_previous_exact_topic(quizzes, grade, board, topic) ==
    IF quizzes = <<>> THEN <<>>
    ELSE LET quiz == Head(quizzes)
             rest == collect_previous_exact_topic(Tail(quizzes), grade, board, topic)
         IN IF quiz.grade = grade /\ quiz.board = board /\ quiz.topic = topic
            THEN quiz.questions \o rest
            ELSE rest

\* the loop of lines 65-69 over a user's quizzes
RECURSIVE collect_previous(_, _, _, _)
collect_previous(quizzes, grade, board, topic) ==
    IF quizzes = <<>> THEN <<>>
    ELSE LET quiz == Head(quizzes)
             rest == collect_previous(Tail(quizzes), grade, board, topic)
         IN IF quiz.grade = grade /\ quiz.board = board
               /\ py_lower(quiz.topic) = py_lower(topic)
            THEN quiz.questions \o rest
            ELSE rest

\* `file` is the dict json.load reads from the history file
get_user_previous_questions(file, user_name, grade, board, topic) ==
    LET history == file
    IN IF IsNone(history[user_name]) THEN <<>>
       ELSE collect_previous(Val(history[user_name]), grade, board, topic)

\* the user's list replaced by the new entry
add_quiz_entry_replacing(history, user_name, grade, board, topic, qs, now) ==
    LET question_texts == [i \in DOMAIN qs |-> qs[i].question]
    IN [history EXCEPT ![user_name] =
            Some(<<QuizEntry(grade, board, topic, question_texts, now)>>)]

\* lines 77-92 of save_user_quiz on the dict it loaded
add_quiz_entry(history, user_name, grade, board, topic, qs, now) ==
    LET quizzes == IF IsNone(history[user_name]) THEN <<>> ELSE Val(history[user_name])
        question_texts == [i \in DOMAIN qs |-> qs[i].question]
    IN [history EXCEPT ![user_name] =
            Some(Append(quizzes, QuizEntry(grade, board, topic, question_texts, now)))]

----------------------------------------------------------------------------
(* Taking a quiz: the Streamlit script of main() and the report UI *)

MaxQuizzes == 2    \* quizzes the history file holds before the session stops asking

\* SCORING.get(difficulty, 1)
SCORING(difficulty) ==
    CASE difficulty = "Easy" -> 1
      [] difficulty = "Medium" -> 2
      [] difficulty = "Hard" -> 4
      [] OTHER -> 1

\* seq[k] is defined in Python for -len <= k < len
CanIndex(seq, k) == k >= -Len(seq) /\ k < Len(seq)

\* generate_questions as one call: the table after it and the list returned
generate_questions(table, grade, board, topic, num_questions, difficulty_distribution, previous_questions, api_key, response, now) ==
    {LET d == decide(p.partial_questions, p.missing_counts, num_questions, api_key)
     IN IF d.pc = "returned"
        THEN [table |-> table, result |-> d.result]
        ELSE LET r == respond(table, grade, board, topic, num_questions,
                              p.partial_questions, Val(d.prompt).total_to_generate,
                              response, now)
             IN [table |-> r.table, result |-> r.result] :
     p \in plan(table, grade, board, topic, num_questions, difficulty_distribution,
                previous_questions)}

\* reset_quiz(): user_name is preserved
reset_quiz(ss) == [initialize_session_state EXCEPT !.user_name = ss.user_name]

current_question(ss) == ss.questions[ss.current_question_index + 1]

\* the main area shows a question (lines 759-761)
ShowsQuestion(ss) ==
    /\ ss.quiz_started /\ ~ss.quiz_completed
    /\ ss.current_question_index < Len(ss.questions)

\* lines 851-862
is_correct(ss) ==
    LET user_answer == IF Len(ss.user_answers) > ss.current_question_index
                       THEN ss.user_answers[ss.current_question_index + 1] ELSE -1
    IN user_answer # -1 /\ user_answer = current_question(ss).correct_answer

\* lines 867-880
points(ss) ==
    IF ss.current_question_index \in ss.reported_questions THEN 0
    ELSE IF is_correct(ss) THEN SCORING(current_question(ss).difficulty)
    ELSE 0

\* what one run of the script writes while it draws the feedback of the
\* current question (lines 870-877); every event is followed by such a run
render(ss) ==
    IF ShowsQuestion(ss) /\ ss.show_feedback
       /\ (ss.current_question_index \in ss.reported_questions \/ is_correct(ss))
    THEN [ss EXCEPT !.coaching_complete = TRUE]
    ELSE ss

\* the feedback run gets past lines 963 and 1020, which index the options
\* with correct_answer
FeedbackDrawn(ss) ==
    LET q == current_question(ss)
        wrong == ss.current_question_index \notin ss.reported_questions /\ ~is_correct(ss)
    IN /\ ~(wrong /\ ss.coaching_active /\ ss.coaching_complete
              /\ ~CanIndex(q.options, q.correct_answer))
       /\ ~(ss.coaching_complete /\ ~ss.coaching_active /\ ~is_correct(ss)
              /\ ~CanIndex(q.options, q.correct_answer))

\* the report UI without the two tests of submitted_reports
ReportUiShownAgain(ss) ==
    /\ ShowsQuestion(ss)
    /\ \/ ~ss.show_feedback
       \/ ss.show_feedback /\ FeedbackDrawn(ss) /\ ss.coaching_complete

\* render_error_reporting_ui is called and gets past its early return
\* (lines 783-784, 1033-1035 and 379-386)
ReportUiShown(ss) ==
    /\ ShowsQuestion(ss)
    /\ ss.current_question_index \notin ss.submitted_reports
    /\ \/ ~ss.show_feedback
       \/ ss.show_feedback /\ FeedbackDrawn(ss) /\ ss.coaching_complete

\* verify_error_report: the prompt of lines 333-352 indexes options[0..3] and
\* options[correct_answer] outside the try block; `answer` is what the model
\* answers after strip().upper(), or "raises" when the request fails
verify_error_report(question, api_key, answer) ==
    IF ~api_key THEN [raised |-> FALSE, value |-> FALSE]
    ELSE IF ~(Len(question.options) >= 4
              /\ CanIndex(question.options, question.correct_answer))
    THEN [raised |-> TRUE, value |-> FALSE]
    ELSE [raised |-> FALSE, value |-> answer = "YES"]

\* the store is updated whatever the verification said
store_after_any_report(table, v, grade, board, topic, question_text, now) ==
    mark_question_invalid(table, grade, board, topic, question_text, now).table

\* lines 437-448: the store after a report with verification outcome v
store_after_report(table, v, grade, board, topic, question_text, now) ==
    IF ~v.raised /\ v.value
    THEN mark_question_invalid(table, grade, board, topic, question_text, now).table
    ELSE table

\* lines 420-457 on session_state
submit_report(ss, idx, v) ==
    LET s1 == [ss EXCEPT !.submitted_reports = @ \cup {idx}]
    IN IF v.raised THEN [s1 EXCEPT !.error_report_active = FALSE]
       ELSE [s1 EXCEPT
               !.report_verification_results = @ \cup {<<idx, v.value>>},
               !.reported_questions = IF v.value THEN @ \cup {idx} ELSE @,
               !.error_report_active = FALSE]

\* what the backend answers in the quiz session
QuizRecords ==
    {Q("q1", "Easy", IntV(0)),
     Q("q2", "Hard", IntV(-1)),
     GenOptions(Q("q2", "Medium", IntV(1)), <<"a", "b">>)}
QuizNums == {1, 2}
QuizResponses ==
    {[kind |-> "list", items |-> l] : l \in UNION {[1..n -> QuizRecords] : n \in QuizNums}}
    \cup {[kind |-> "raises", items |-> <<>>]}

HistoryLen(file) ==
    LET n(u) == IF IsNone(file[u]) THEN 0 ELSE Len(Val(file[u]))
    IN n("ann") + n("Ann")

\* "Generate Quiz" (lines 632-682), with the name typed before it (line 556);
\* save_user_quiz loads the file, adds the entry and writes the file back
GenerateQuiz ==
    /\ ~(session_state.quiz_started /\ ~session_state.quiz_completed)
    /\ HistoryLen(user_history) < MaxQuizzes
    /\ \E user_name \in {"ann"} : \E num_questions \in QuizNums :
       \E api_key \in BOOLEAN : \E response \in QuizResponses :
        LET named == [session_state EXCEPT !.user_name = user_name]
            fresh == IF named.quiz_started THEN reset_quiz(named) ELSE named
            grade == ScopeA.grade
            board == ScopeA.board
            topic == ScopeA.topic
            previous_questions ==
                get_user_previous_questions(user_history, user_name, grade, board, topic)
        IN \E g \in generate_questions(questions, grade, board, topic, num_questions,
                                       [Easy |-> 50, Medium |-> 30, Hard |-> 20],
                                       previous_questions, api_key, response, clock) :
            /\ questions' = g.table
            /\ IF g.result # <<>>
               THEN /\ session_state' =
                        render([fresh EXCEPT !.questions = g.result,
                                             !.quiz_started = TRUE,
                                             !.current_question_index = 0,
                                             !.user_answers = <<>>,
                                             !.score = 0,
                                             !.show_feedback = FALSE,
                                             !.quiz_completed = FALSE,
                                             !.quiz_grade = Some(grade),
                                             !.quiz_board = Some(board),
                                             !.quiz_topic = Some(topic)])
                    /\ user_history' = add_quiz_entry(user_history, user_name, grade,
                                                      board, topic, g.result, clock)
               ELSE /\ session_state' = fresh
                    /\ UNCHANGED user_history
            /\ verify_log' = IF named.quiz_started THEN <<>> ELSE verify_log
    /\ UNCHANGED <<clock, ret, sess, lock, wtx>>

\* "Reset Quiz" in the sidebar (lines 685-688)
ResetQuiz ==
    /\ session_state.quiz_started
    /\ session_state' = reset_quiz(session_state)
    /\ verify_log' = <<>>
    /\ UNCHANGED <<questions, clock, ret, sess, lock, wtx, user_history>>

\* the review of lines 720-753 indexes the options with correct_answer for a
\* question that was answered wrongly and not reported
ReviewDrawn(ss) ==
    \A i \in 1..Min(Len(ss.questions), Len(ss.user_answers)) :
        LET q == ss.questions[i]
            correct == ss.user_answers[i] # -1 /\ ss.user_answers[i] = q.correct_answer
        IN correct \/ (i - 1) \in ss.reported_questions
             \/ CanIndex(q.options, q.correct_answer)

\* "Take Another Quiz" under the results (lines 755-757)
TakeAnotherQuiz ==
    /\ session_state.quiz_started /\ session_state.quiz_completed
    /\ ReviewDrawn(session_state)
    /\ session_state' = reset_quiz(session_state)
    /\ verify_log' = <<>>
    /\ UNCHANGED <<questions, clock, ret, sess, lock, wtx, user_history>>

\* "Report Error" (lines 391-394)
ReportError ==
    /\ ReportUiShown(session_state)
    /\ ~session_state.error_report_active
    /\ session_state' = render([session_state EXCEPT !.error_report_active = TRUE])
    /\ UNCHANGED <<questions, clock, ret, sess, lock, wtx, user_history, verify_log>>

\* "Cancel" (lines 460-462)
CancelReport ==
    /\ ReportUiShown(session_state)
    /\ session_state.error_report_active
    /\ session_state' = render([session_state EXCEPT !.error_report_active = FALSE])
    /\ UNCHANGED <<questions, clock, ret, sess, lock, wtx, user_history, verify_log>>

\* "Submit Report" (lines 410-457)
SubmitReport ==
    /\ ReportUiShown(session_state)
    /\ session_state.error_report_active
    /\ LET ss == session_state
           idx == ss.current_question_index
           question == current_question(ss)
       IN IF IsNone(ss.quiz_grade) \/ IsNone(ss.quiz_board) \/ IsNone(ss.quiz_topic)
          THEN UNCHANGED <<questions, session_state, verify_log>>
          ELSE \E api_key \in BOOLEAN : \E answer \in {"YES", "NO", "raises"} :
                LET v == verify_error_report(question, api_key, answer)
                IN /\ verify_log' = Append(verify_log, idx)
                   /\ session_state' = render(submit_report(ss, idx, v))
                   /\ questions' = store_after_report(questions, v, Val(ss.quiz_grade),
                                                      Val(ss.quiz_board),
                                                      Val(ss.quiz_topic),
                                                      question.question, clock)
    /\ UNCHANGED <<clock, ret, sess, lock, wtx, user_history>>

\* one of the option buttons (lines 825-847), here A or B; options[2] and
\* options[3] are read before the click is handled
Answer ==
    /\ ShowsQuestion(session_state)
    /\ ~session_state.show_feedback
    /\ session_state.current_question_index \notin session_state.reported_questions
    /\ Len(current_question(session_state).options) >= 4
    /\ \E selected_answer \in {0, 1} :
        session_state' = render([session_state EXCEPT
                                   !.user_answers = Append(@, selected_answer),
                                   !.show_feedback = TRUE,
                                   !.coaching_active = FALSE,
                                   !.coaching_complete = FALSE])
    /\ UNCHANGED <<questions, clock, ret, sess, lock, wtx, user_history, verify_log>>

\* the coaching buttons are drawn for a wrong answer to a question that is not
\* reported (lines 879-893)
CoachingOffered(ss) ==
    /\ ShowsQuestion(ss) /\ ss.show_feedback
    /\ ss.current_question_index \notin ss.reported_questions
    /\ ~is_correct(ss)

\* "Get Coaching" (lines 897-916)
GetCoaching ==
    /\ CoachingOffered(session_state)
    /\ ~session_state.coaching_active /\ ~session_state.coaching_complete
    /\ session_state' = render([session_state EXCEPT !.coaching_active = TRUE,
                                                     !.coaching_complete = FALSE])
    /\ UNCHANGED <<questions, clock, ret, sess, lock, wtx, user_history, verify_log>>

\* "Skip to Answer" (lines 919-923)
SkipToAnswer ==
    /\ CoachingOffered(session_state)
    /\ ~session_state.coaching_active /\ ~session_state.coaching_complete
    /\ session_state' = render([session_state EXCEPT !.coaching_complete = TRUE,
                                                     !.coaching_active = FALSE])
    /\ UNCHANGED <<questions, clock, ret, sess, lock, wtx, user_history, verify_log>>

\* "Show Answer" in the dialog, or a coach reply that gives the answer away
\* (lines 996-1007)
ShowAnswer ==
    /\ CoachingOffered(session_state)
    /\ session_state.coaching_active /\ ~session_state.coaching_complete
    /\ session_state' = render([session_state EXCEPT !.coaching_complete = TRUE])
    /\ UNCHANGED <<questions, clock, ret, sess, lock, wtx, user_history, verify_log>>

\* "Close Coaching" (lines 964-966 and 1009-1011); with coaching complete the
\* button comes after line 963
CloseCoaching ==
    /\ CoachingOffered(session_state)
    /\ session_state.coaching_active
    /\ session_state.coaching_complete =>
         CanIndex(current_question(session_state).options,
                  current_question(session_state).correct_answer)
    /\ session_state' = render([session_state EXCEPT !.coaching_active = FALSE])
    /\ UNCHANGED <<questions, clock, ret, sess, lock, wtx, user_history, verify_log>>

\* the two buttons of lines 787-812 without the placeholder answer
LeaveReportedUnplaced ==
    /\ ShowsQuestion(session_state)
    /\ ~session_state.show_feedback
    /\ session_state.current_question_index \in session_state.reported_questions
    /\ LET ss == session_state
           left == [ss EXCEPT !.coaching_active = FALSE,
                              !.coaching_complete = FALSE,
                              !.error_report_active = FALSE]
       IN session_state' =
            IF ss.current_question_index < Len(ss.questions) - 1
            THEN render([left EXCEPT !.current_question_index = @ + 1,
                                     !.show_feedback = FALSE])
            ELSE render([left EXCEPT !.quiz_completed = TRUE])
    /\ UNCHANGED <<questions, clock, ret, sess, lock, wtx, user_history, verify_log>>

\* "Next Question" / "View Results" of a question reported before it was
\* answered (lines 787-812)
LeaveReported ==
    /\ ShowsQuestion(session_state)
    /\ ~session_state.show_feedback
    /\ session_state.current_question_index \in session_state.reported_questions
    /\ LET ss == session_state
           \* the placeholder answer of lines 799-800 and 810-811
           placed == IF Len(ss.user_answers) <= ss.current_question_index
                     THEN [ss EXCEPT !.user_answers = Append(@, -1)] ELSE ss
           left == [placed EXCEPT !.coaching_active = FALSE,
                                                !.coaching_complete = FALSE,
                                                !.error_report_active = FALSE]
       IN session_state' =
            IF ss.current_question_index < Len(ss.questions) - 1
            THEN render([left EXCEPT !.current_question_index = @ + 1,
                                     !.show_feedback = FALSE])
            ELSE render([left EXCEPT !.quiz_completed = TRUE])
    /\ UNCHANGED <<questions, clock, ret, sess, lock, wtx, user_history, verify_log>>

\* "Next Question" / "View Results" under the feedback (lines 1049-1074)
LeaveAnswered ==
    /\ ShowsQuestion(session_state)
    /\ session_state.show_feedback
    /\ FeedbackDrawn(session_state)
    /\ session_state.coaching_complete
    /\ LET ss == session_state
           \* lines 1060-1062 and 1071-1073
           scored == IF ss.current_question_index \notin ss.reported_questions
                     THEN [ss EXCEPT !.score = @ + points(ss)] ELSE ss
           left == [scored EXCEPT !.coaching_active = FALSE,
                                          !.coaching_complete = FALSE,
                                          !.error_report_active = FALSE]
       IN session_state' =
            IF ss.current_question_index < Len(ss.questions) - 1
            THEN render([left EXCEPT !.current_question_index = @ + 1,
                                     !.show_feedback = FALSE])
            ELSE render([left EXCEPT !.quiz_completed = TRUE])
    /\ UNCHANGED <<questions, clock, ret, sess, lock, wtx, user_history, verify_log>>

\* lines 707-711
total_possible(ss) ==
    LET weights == [i \in DOMAIN ss.questions |->
                      IF (i - 1) \in ss.reported_questions THEN 0
                      ELSE SCORING(ss.questions[i].difficulty)]
    IN SeqSum(weights)

NextQuiz ==
    \/ GenerateQuiz
    \/ ResetQuiz
    \/ TakeAnotherQuiz
    \/ ReportError
    \/ CancelReport
    \/ SubmitReport
    \/ Answer
    \/ GetCoaching
    \/ SkipToAnswer
    \/ ShowAnswer
    \/ CloseCoaching
    \/ LeaveReported
    \/ LeaveAnswered

SpecQuiz == Init /\ [][NextQuiz]_vars

----------------------------------------------------------------------------
(* Two sessions saving quizzes to the history file *)

MaxSaved == 2      \* entries in the history file beyond which no save starts

\* save_user_quiz is entered and loads the file (line 75)
HSaveCall(s) ==
    /\ sess[s].pc = "idle"
    /\ HistoryLen(user_history) < MaxSaved
    /\ \E user_name \in Users : \E qs \in {<<Q("q1", "Easy", 1), Q("q2", "Hard", 1)>>} :
          Start(s, [pc |-> "loaded", op |-> "save_user_quiz", user_name |-> user_name,
                    scope |-> ScopeA, qs |-> qs,
                    history |-> user_history,
                    before |-> user_history,
                    overlapped |-> Active(Other(s))])
    /\ UNCHANGED <<questions, clock, ret, lock, wtx, session_state, user_history, verify_log>>

\* lines 77-92 on the loaded dict, then open(..., 'w') of save_user_history,
\* which empties the file: until json.dump has written it a reader gets
\* JSONDecodeError, which load_user_history turns into {}.  `before` is what
\* the file held when it was opened for writing
HOpen(s) ==
    /\ sess[s].pc = "loaded"
    /\ sess' = [sess EXCEPT ![s] =
                  [@ EXCEPT !.pc = "opened",
                            !.before = user_history,
                            !.history = add_quiz_entry(@, sess[s].user_name,
                                                       sess[s].scope.grade,
                                                       sess[s].scope.board,
                                                       sess[s].scope.topic,
                                                       sess[s].qs, clock)]]
    /\ user_history' = NoHistory
    /\ UNCHANGED <<questions, clock, ret, lock, wtx, session_state, verify_log>>

\* json.dump(history, f) and the close of the file
HDump(s) ==
    /\ sess[s].pc = "opened"
    /\ sess' = [sess EXCEPT ![s] = [@ EXCEPT !.pc = "done"]]
    /\ user_history' = sess[s].history
    /\ UNCHANGED <<questions, clock, ret, lock, wtx, session_state, verify_log>>

NextHistory ==
    \E s \in Sessions :
       \/ HSaveCall(s)
       \/ HOpen(s)
       \/ HDump(s)
       \/ CReturn(s)

SpecHistory == Init /\ [][NextHistory]_vars

----------------------------------------------------------------------------
(* Reading the history file *)

MaxHistLen == 2    \* longest list of quizzes a user has in the file

\* the requests, and the quizzes in the file: one per request
HistScopes ==
    {ScopeA,
     [grade |-> 6, board |-> "CBSE", topic |-> "Math"],
     [grade |-> 7, board |-> "CBSE", topic |-> "math"],
     [grade |-> 6, board |-> "ICSE", topic |-> "math"],
     [grade |-> 6, board |-> "CBSE", topic |-> "algebra"]}

HistEntries ==
    LET texts(scope) ==
            IF scope = ScopeA THEN <<"q1", "q2">>
            ELSE IF scope.topic = "Math" THEN <<"q3">>
            ELSE IF scope.grade = 7 THEN <<"g7">>
            ELSE IF scope.board = "ICSE" THEN <<"ic">>
            ELSE <<"al">>
    IN {QuizEntry(sc.grade, sc.board, sc.topic, texts(sc), 0) : sc \in HistScopes}

HistoryFiles ==
    [Users -> {None} \cup {Some(l) : l \in SeqsUpTo(HistEntries, MaxHistLen)}]

InitPrevious ==
    /\ questions = <<>>
    /\ clock = 0
    /\ ret = NoCall
    /\ sess = [s \in Sessions |-> Idle]
    /\ lock = NoSession
    /\ wtx = <<>>
    /\ session_state = initialize_session_state
    /\ user_history \in HistoryFiles
    /\ verify_log = <<>>

GetUserPreviousQuestions ==
    /\ ret = NoCall
    /\ \E user_name \in Users : \E sc \in HistScopes :
        ret' = [op |-> "get_user_previous_questions", user_name |-> user_name,
                scope |-> sc,
                result |-> get_user_previous_questions(user_history, user_name,
                                                       sc.grade, sc.board, sc.topic)]
    /\ UNCHANGED <<questions, clock, sess, lock, wtx, session_state, user_history, verify_log>>

SpecPrevious == InitPrevious /\ [][GetUserPreviousQuestions]_vars

----------------------------------------------------------------------------
(* get_questions_by_difficulty_distribution (question_database.py, 213-262) *)

MaxDistNum == 4    \* largest num_questions asked of the bounded stores

\* the loop with get_questions called without a limit
get_questions_by_difficulty_distribution_unlimited(table, grade, board, topic, difficulty_distribution, num_questions) ==
    LET counts == distribution_counts(num_questions, difficulty_distribution)
        short(d) == counts[d] > 0
                      /\ count_questions(table, grade, board, topic, Some(d)) < counts[d]
        part(d) == IF counts[d] > 0
                   THEN get_questions(table, grade, board, topic, d, None, TRUE)
                   ELSE {<<>>}
    IN IF \E d \in Difficulties : short(d) THEN {<<>>}
       ELSE {e \o m \o h : e \in part("Easy"), m \in part("Medium"), h \in part("Hard")}

\* the loop skipping the check of `available` against `count`
get_questions_by_difficulty_distribution_available(table, grade, board, topic, difficulty_distribution, num_questions) ==
    LET counts == distribution_counts(num_questions, difficulty_distribution)
        part(d) == IF counts[d] > 0
                   THEN get_questions(table, grade, board, topic, d, Some(counts[d]), TRUE)
                   ELSE {<<>>}
    IN {e \o m \o h : e \in part("Easy"), m \in part("Medium"), h \in part("Hard")}

\* the lists the call can return: [] as soon as a difficulty with a positive
\* count has fewer valid questions than that, otherwise `count` random
\* questions of each such difficulty, Easy first
get_questions_by_difficulty_distribution(table, grade, board, topic, difficulty_distribution, num_questions) ==
    LET counts == distribution_counts(num_questions, difficulty_distribution)
        short(d) == counts[d] > 0
                      /\ count_questions(table, grade, board, topic, Some(d)) < counts[d]
        part(d) == IF counts[d] > 0
                   THEN get_questions(table, grade, board, topic, d, Some(counts[d]), TRUE)
                   ELSE {<<>>}
    IN IF \E d \in Difficulties : short(d) THEN {<<>>}
       ELSE {e \o m \o h : e \in part("Easy"), m \in part("Medium"), h \in part("Hard")}

\* 5 Easy, 3 Medium and 2 Hard valid questions, asked for 10 at 50/30/20
FullStore == StoreOf(5, 3, 2, 0)

InitDistribution ==
    /\ questions \in PlanStores \cup {FullStore}
    /\ clock = 0
    /\ ret = NoCall
    /\ sess = [s \in Sessions |-> Idle]
    /\ lock = NoSession
    /\ wtx = <<>>
    /\ session_state = initialize_session_state
    /\ user_history = NoHistory
    /\ verify_log = <<>>

GetQuestionsByDifficultyDistribution ==
    /\ ret = NoCall
    /\ \E num_questions \in (IF questions = FullStore THEN {10} ELSE (1..MaxDistNum) \cup {10}) :
       \E difficulty_distribution \in Distributions :
       \E result \in get_questions_by_difficulty_distribution(
                        questions, ScopeEx.grade, ScopeEx.board, ScopeEx.topic,
                        difficulty_distribution, num_questions) :
        ret' = [op |-> "get_questions_by_difficulty_distribution", scope |-> ScopeEx,
                num_questions |-> num_questions,
                difficulty_distribution |-> difficulty_distribution,
                result |-> result]
    /\ UNCHANGED <<questions, clock, sess, lock, wtx, session_state, user_history, verify_log>>

SpecDistribution == InitDistribution /\ [][GetQuestionsByDifficultyDistribution]_vars

----------------------------------------------------------------------------
(* get_partial_questions_and_missing_counts and                              *)
(* get_questions_by_difficulty_distribution called by one session while the  *)
(* other session writes.  Each round of their loops is two calls, each on a  *)
(* connection of its own: count_questions, then get_questions; the other     *)
(* session's commit can fall between them.                                   *)

MaxSampleNum == 2    \* largest num_questions the reading session asks for

Reader == "s1"
Writer == "s2"

\* the tables the sessions start from
SampleStores ==
    {save_questions(<<>>, qs, ScopeA.grade, ScopeA.board, ScopeA.topic, 0).table :
        qs \in {<<>>,
                <<Q("q1", "Easy", IntV(1))>>,
                <<Q("q1", "Easy", IntV(1)), Q("q2", "Hard", IntV(1))>>,
                <<Q("q1", "Easy", IntV(1)), Q("q2", "Easy", IntV(1))>>}}

InitSample ==
    /\ questions \in SampleStores
    /\ clock = 0
    /\ ret = NoCall
    /\ sess = [s \in Sessions |-> Idle]
    /\ lock = NoSession
    /\ wtx = <<>>
    /\ session_state = initialize_session_state
    /\ user_history = NoHistory
    /\ verify_log = <<>>

\* the frame of either call at its first round
SampleCall(op, num_questions, difficulty_distribution, overlapped) ==
    [pc |-> "count", op |-> op, scope |-> ScopeA, num_questions |-> num_questions,
     difficulty_distribution |-> difficulty_distribution,
     counts |-> distribution_counts(num_questions, difficulty_distribution),
     i |-> 1, available |-> 0, all_questions |-> <<>>,
     missing_counts |-> [d \in Difficulties |-> 0], overlapped |-> overlapped]

\* the loop moves on to the next difficulty, or the call returns
NextRound(c) == [c EXCEPT !.i = @ + 1, !.pc = IF c.i = 3 THEN "done" ELSE "count"]

CPartialCall(s) ==
    /\ sess[s].pc = "idle"
    /\ \E num_questions \in 1..MaxSampleNum : \E difficulty_distribution \in Distributions :
          Start(s, SampleCall("get_partial_questions_and_missing_counts", num_questions,
                              difficulty_distribution, Active(Other(s))))
    /\ UNCHANGED <<questions, clock, ret, lock, wtx, session_state, user_history, verify_log>>

\* if count > 0: available = count_questions(grade, board, topic, difficulty)
CPartialCount(s) ==
    LET c == sess[s]
        difficulty == DifficultyOrder[c.i]
    IN /\ c.pc = "count" /\ c.op = "get_partial_questions_and_missing_counts"
       /\ sess' = [sess EXCEPT ![s] =
                     IF c.counts[difficulty] > 0
                     THEN [c EXCEPT !.pc = "get",
                                    !.available = count_questions(
                                        View(s), c.scope.grade, c.scope.board,
                                        c.scope.topic, Some(difficulty))]
                     ELSE NextRound(c)]
       /\ UNCHANGED <<questions, clock, ret, lock, wtx, session_state, user_history, verify_log>>

\* get_questions(limit=count) if available >= count, else
\* get_questions(limit=available) and missing_counts[difficulty] = count - available
CPartialGet(s) ==
    LET c == sess[s]
        difficulty == DifficultyOrder[c.i]
        count == c.counts[difficulty]
        enough == c.available >= count
    IN /\ c.pc = "get" /\ c.op = "get_partial_questions_and_missing_counts"
       /\ \E qs \in get_questions(View(s), c.scope.grade, c.scope.board, c.scope.topic,
                                  difficulty,
                                  Some(IF enough THEN count ELSE c.available), TRUE) :
             sess' = [sess EXCEPT ![s] =
                        NextRound([c EXCEPT !.all_questions = @ \o qs,
                                            !.missing_counts[difficulty] =
                                                IF enough THEN 0 ELSE count - c.available])]
       /\ UNCHANGED <<questions, clock, ret, lock, wtx, session_state, user_history, verify_log>>

CDistCall(s) ==
    /\ sess[s].pc = "idle"
    /\ \E num_questions \in 1..MaxSampleNum : \E difficulty_distribution \in Distributions :
          Start(s, SampleCall("get_questions_by_difficulty_distribution", num_questions,
                              difficulty_distribution, Active(Other(s))))
    /\ UNCHANGED <<questions, clock, ret, lock, wtx, session_state, user_history, verify_log>>

\* if count > 0: available = count_questions(...); if available < count: return []
CDistCount(s) ==
    LET c == sess[s]
        difficulty == DifficultyOrder[c.i]
        available == count_questions(View(s), c.scope.grade, c.scope.board,
                                     c.scope.topic, Some(difficulty))
    IN /\ c.pc = "count" /\ c.op = "get_questions_by_difficulty_distribution"
       /\ sess' = [sess EXCEPT ![s] =
                     IF c.counts[difficulty] <= 0 THEN NextRound(c)
                     ELSE IF available < c.counts[difficulty]
                     THEN [c EXCEPT !.pc = "done", !.available = available,
                                    !.all_questions = <<>>]
                     ELSE [c EXCEPT !.pc = "get", !.available = available]]
       /\ UNCHANGED <<questions, clock, ret, lock, wtx, session_state, user_history, verify_log>>

\* all_questions.extend(get_questions(..., limit=count, random=True))
CDistGet(s) ==
    LET c == sess[s]
        difficulty == DifficultyOrder[c.i]
    IN /\ c.pc = "get" /\ c.op = "get_questions_by_difficulty_distribution"
       /\ \E qs \in get_questions(View(s), c.scope.grade, c.scope.board, c.scope.topic,
                                  difficulty, Some(c.counts[difficulty]), TRUE) :
             sess' = [sess EXCEPT ![s] = NextRound([c EXCEPT !.all_questions = @ \o qs])]
       /\ UNCHANGED <<questions, clock, ret, lock, wtx, session_state, user_history, verify_log>>

NextSample ==
    \/ CPartialCall(Reader)
    \/ CPartialCount(Reader)
    \/ CPartialGet(Reader)
    \/ CDistCall(Reader)
    \/ CDistCount(Reader)
    \/ CDistGet(Reader)
    \/ CReturn(Reader)
    \/ CSaveCall(Writer)
    \/ CSaveStep(Writer)
    \/ CSaveCommit(Writer)
    \/ CMarkCall(Writer)
    \/ CMarkUpdate(Writer)
    \/ CMarkCommit(Writer)
    \/ CReturn(Writer)

SpecSample == InitSample /\ [][NextSample]_vars

----------------------------------------------------------------------------
(* Properties of the store under one client *)

Keys(table) ==
    {<<table[i].grade, table[i].board, table[i].topic, table[i].question>> : i \in DOMAIN table}

StoredBefore(i) ==
    RowsWithKey(questions, ret'.scope, ret'.texts[i]) # {}

C3_InvalidStaysInvalid ==
    [][\A i \in DOMAIN questions :
          questions[i].is_valid # Some(1) =>
             LET same == {j \in DOMAIN questions' :
                            SameKey(questions'[j], questions[i].grade, questions[i].board,
                                    questions[i].topic, questions[i].question)}
             IN /\ same # {}
                /\ \A j \in same : questions'[j].is_valid = Some(0)
      ]_vars

\* an invalidated question was passed to save_questions again and stayed invalid
C3_Witness ==
    /\ ret.op = "save_questions"
    /\ \E i \in DOMAIN ret.texts :
         \E k \in RowsWithKey(questions, ret.scope, ret.texts[i]) :
            questions[k].is_valid = Some(0)

\* C4: no call removes a row: the set of stored keys only grows, and every
\* stored row is either valid or invalid.
C4_KeysOnlyGrow ==
    [][/\ Keys(questions) \subseteq Keys(questions')
       /\ Len(questions') >= Len(questions)
       /\ \A i \in DOMAIN questions' : questions'[i].is_valid \in {Some(0), Some(1)}
      ]_vars

\* a question was invalidated and its row is still there
C4_Witness ==
    /\ ret.op = "mark_question_invalid"
    /\ ret.updated
    /\ \E k \in RowsWithKey(questions, ret.scope, ret.question_text) :
          questions[k].is_valid = Some(0)
    /\ Len(questions) >= 2

ScopeTotal(table, scope) ==
    count_questions(table, scope.grade, scope.board, scope.topic, None)

InReport(table, scope, text) ==
    \A rep \in get_invalid_questions_report(table, Some(scope.grade), Some(scope.board),
                                            Some(scope.topic)) :
       \E i \in DOMAIN rep : rep[i].question = text

\* C5: mark_question_invalid on a stored valid question returns True, after
\* which count_questions is one lower, the invalid report and
\* count_invalid_questions include the question; on a question that is already
\* invalid it returns False and changes nothing.
C5_InvalidateTwice ==
    [][ret'.op = "mark_question_invalid" =>
         LET sc == ret'.scope
             rows == RowsWithKey(questions, sc, ret'.question_text)
         IN /\ (\E k \in rows : questions[k].is_valid = Some(1)) =>
                  /\ ret'.updated
                  /\ ScopeTotal(questions', sc) = ScopeTotal(questions, sc) - 1
                  /\ InReport(questions', sc, ret'.question_text)
                  /\ count_invalid_questions(questions', Some(sc.grade), Some(sc.board),
                                             Some(sc.topic))
                     = count_invalid_questions(questions, Some(sc.grade), Some(sc.board),
                                               Some(sc.topic)) + 1
            /\ (rows # {} /\ \A k \in rows : questions[k].is_valid = Some(0)) =>
                  /\ ~ret'.updated
                  /\ questions' = questions
      ]_vars

\* the second call on the same question: False, the row invalid since an earlier call
C5_Witness ==
    /\ ret.op = "mark_question_invalid"
    /\ ~ret.updated
    /\ \E k \in RowsWithKey(questions, ret.scope, ret.question_text) :
          /\ questions[k].is_valid = Some(0)
          /\ questions[k].reported_at # Some(clock)

MatchingValid(table, scope, difficulty) ==
    {i \in DOMAIN table :
        /\ table[i].grade = scope.grade /\ table[i].board = scope.board
        /\ table[i].topic = scope.topic /\ table[i].is_valid = Some(1)
        /\ (~IsNone(difficulty) => table[i].difficulty = Val(difficulty))}

\* C8: count_questions returns the number of stored valid rows that match the
\* filters exactly, and without a difficulty the sum of the Easy, Medium and
\* Hard counts of the same grade, board and topic.
C8_CountValidOnly ==
    ret.op = "count_questions" =>
       /\ ret.count = Cardinality(MatchingValid(questions, ret.scope, ret.difficulty))
       /\ IsNone(ret.difficulty) =>
            ret.count = SeqSum([k \in 1..3 |->
                           count_questions(questions, ret.scope.grade, ret.scope.board,
                                           ret.scope.topic, Some(DifficultyOrder[k]))])

\* a total over difficulties that leaves out an invalid row of the same scope
C8_Witness ==
    /\ ret.op = "count_questions"
    /\ IsNone(ret.difficulty)
    /\ ret.count = 1
    /\ \E i \in DOMAIN questions :
          /\ questions[i].grade = ret.scope.grade
          /\ questions[i].topic = ret.scope.topic
          /\ questions[i].is_valid = Some(0)

\* C9: for every limit >= 0, limit 0 included, get_questions returns at most
\* `limit` questions, each of them a valid stored row of the requested grade,
\* board, topic and difficulty.
C9_AtMostLimit ==
    (ret.op = "get_questions" /\ ~IsNone(ret.limit)) =>
       /\ Len(ret.result) <= Val(ret.limit)
       /\ \A k \in DOMAIN ret.result :
             \E i \in MatchingValid(questions, ret.scope, Some(ret.difficulty)) :
                ret.result[k] = QuestionDict(questions[i])

\* C10: Easy = floor(total * EasyPct / 100), Medium = floor(total * MediumPct /
\* 100), Hard = total - Easy - Medium, so the three targets sum to the total.
C10_TargetsSumToTotal ==
    ret.op = "targets" =>
       LET n == ret.num_questions
           d == ret.difficulty_distribution
           c == ret.counts
       IN /\ c["Easy"] = (n * d["Easy"]) \div 100
          /\ c["Medium"] = (n * d["Medium"]) \div 100
          /\ c["Hard"] = n - c["Easy"] - c["Medium"]
          /\ c["Easy"] + c["Medium"] + c["Hard"] = n

\* targets where independent rounding of the three percentages would lose a question
C10_Witness ==
    /\ ret.op = "targets"
    /\ ret.num_questions = 7
    /\ ret.difficulty_distribution = [Easy |-> 35, Medium |-> 35, Hard |-> 30]
    /\ ret.counts = [Easy |-> 2, Medium |-> 2, Hard |-> 3]

----------------------------------------------------------------------------
(* Properties of the store under two sessions *)

BothDone(op) ==
    \A s \in Sessions : sess[s].pc = "done" /\ sess[s].op = op /\ sess[s].overlapped

TextsOf(s) == {sess[s].qs[i].question : i \in DOMAIN sess[s].qs}
CommonTexts == {k \in Texts : \A s \in Sessions : k \in TextsOf(s)}

\* session s counted an insert of text k as saved
SavedBy(s, k) ==
    \E i \in DOMAIN sess[s].outcomes :
       sess[s].qs[i].question = k /\ sess[s].outcomes[i] = "saved"

\* every insert of text k by session s was counted, and as skipped
SkippedBy(s, k) ==
    \A i \in DOMAIN sess[s].qs :
       sess[s].qs[i].question = k =>
          i \in DOMAIN sess[s].outcomes /\ sess[s].outcomes[i] = "skipped"

\* every record of session s with text k can be inserted into an empty table
Insertable(s, k) ==
    \A i \in DOMAIN sess[s].qs :
       sess[s].qs[i].question = k =>
          /\ py_int(sess[s].qs[i].correct_answer).ok
          /\ CheckConstraints([difficulty |-> sess[s].qs[i].difficulty,
                               correct_answer |-> py_int(sess[s].qs[i].correct_answer).val])

\* C2 (as stated, read for records that satisfy the table's constraints): when
\* two overlapping save_questions calls carry the same key, the store ends with
\* exactly one row for it, exactly one of the calls counts it as saved and the
\* other as skipped, and neither call fails.
C2_ExactlyOneCallSaves ==
    BothDone("save_questions") =>
       /\ \A s \in Sessions : ~sess[s].raised
       /\ \A k \in CommonTexts :
             (\A s \in Sessions : Insertable(s, k)) =>
                /\ Cardinality(RowsWithKey(questions, ScopeA, k)) = 1
                /\ \E s \in Sessions : SavedBy(s, k) /\ SkippedBy(Other(s), k)

\* C2 (amended): when two overlapping save_questions calls carry the same key,
\* the store ends with at most one row for it, at most one of the calls counts
\* it as saved, and neither call fails; if the key was not stored when the
\* calls started and its records satisfy the table's constraints, there is
\* exactly one row, one call counts it as saved and the other as skipped; if
\* the key was stored when both calls started, both count it as skipped.
C2_AtMostOneCallSaves ==
    BothDone("save_questions") =>
       /\ \A s \in Sessions : ~sess[s].raised
       /\ \A k \in CommonTexts :
             /\ Cardinality(RowsWithKey(questions, ScopeA, k)) <= 1
             /\ ~(\A s \in Sessions : SavedBy(s, k))
             /\ (\A s \in Sessions : k \notin sess[s].pre /\ Insertable(s, k)) =>
                   /\ Cardinality(RowsWithKey(questions, ScopeA, k)) = 1
                   /\ \E s \in Sessions : SavedBy(s, k) /\ SkippedBy(Other(s), k)
             /\ (\A s \in Sessions : k \in sess[s].pre) =>
                   \A s \in Sessions : SkippedBy(s, k)

\* both calls carried q1 and q2, neither was stored before: one call saved both
C2_Witness ==
    /\ BothDone("save_questions")
    /\ \A s \in Sessions : sess[s].pre = {} /\ Len(sess[s].qs) = 2
    /\ sess["s1"].qs # sess["s2"].qs
    /\ CommonTexts = Texts
    /\ \A k \in Texts : SavedBy("s2", k) /\ SkippedBy("s1", k)
    /\ Len(questions) = 2

\* C6: two overlapping mark_question_invalid calls for the same stored valid
\* question: exactly one returns True, the other False, and the row carries the
\* timestamp of the call that returned True.
C6_OneInvalidationWins ==
    (/\ BothDone("mark_question_invalid")
     /\ sess["s1"].question_text = sess["s2"].question_text
     /\ \A s \in Sessions : sess[s].pre_valid) =>
       /\ \E s \in Sessions : sess[s].updated /\ ~sess[Other(s)].updated
       /\ \A s \in Sessions : sess[s].updated =>
             \A i \in RowsWithKey(questions, ScopeA, sess[s].question_text) :
                /\ questions[i].is_valid = Some(0)
                /\ questions[i].reported_at = sess[s].at

\* the two calls ran at different clock values; the row has the first one's
C6_Witness ==
    /\ BothDone("mark_question_invalid")
    /\ sess["s1"].question_text = sess["s2"].question_text
    /\ \A s \in Sessions : sess[s].pre_valid
    /\ sess["s2"].updated /\ ~sess["s1"].updated
    /\ sess["s1"].at # sess["s2"].at
    /\ \E i \in RowsWithKey(questions, ScopeA, sess["s2"].question_text) :
          questions[i].reported_at = sess["s2"].at

RowConsistent(r) ==
    \/ r.is_valid = Some(1) /\ r.reported_at = None
    \/ r.is_valid = Some(0) /\ r.reported_at # None

\* C7: whatever a connection can read at any moment - the committed table, or
\* its own uncommitted view - every row is valid without a report timestamp or
\* invalid with one, also while another session is inside mark_question_invalid.
C7_NoHalfUpdatedRow ==
    \A s \in Sessions : \A i \in DOMAIN View(s) : RowConsistent(View(s)[i])

\* a count taken while the other session's UPDATE is done but not committed:
\* the reader still counted the row the writer's view has invalidated
C7_Witness ==
    /\ sess["s1"].pc = "mark_commit"
    /\ sess["s1"].updated
    /\ sess["s2"].pc = "done"
    /\ sess["s2"].op = "count_questions"
    /\ sess["s2"].overlapped
    /\ sess["s2"].count = Cardinality(MatchingValid(questions, ScopeA, None))
    /\ sess["s2"].count > Cardinality(MatchingValid(wtx, ScopeA, None))

----------------------------------------------------------------------------
(* Properties of a quiz request *)

GenAt(pcs) == ret.op = "generate_questions" /\ ret.pc \in pcs

Normalized(text) == py_strip(py_lower(text))

\* the user's seen set, lower-cased and trimmed
Seen == {Normalized(ret.previous_questions[i]) : i \in DOMAIN ret.previous_questions}

ValidRows(d) ==
    {i \in RowsOf(questions, ret.scope) :
        questions[i].difficulty = d /\ questions[i].is_valid = Some(1)}

UnseenValidRows(d) ==
    {i \in ValidRows(d) : Normalized(questions[i].question) \notin Seen}

Usable(d) ==
    {i \in DOMAIN ret.partial_questions : ret.partial_questions[i].difficulty = d}

Target(d) == distribution_counts(ret.num_questions, ret.difficulty_distribution)[d]

\* C11 (as stated): with k valid questions of difficulty D stored and a target
\* t > k, the plan step returns exactly k usable questions of difficulty D and a
\* shortfall of t - k for D.
C11_ShortfallOfAllValid ==
    GenAt({"planned"}) =>
        \A d \in Difficulties :
           LET k == Cardinality(ValidRows(d)) IN
           Target(d) > k =>
              /\ Cardinality(Usable(d)) = k
              /\ ret.missing_counts[d] = Target(d) - k

\* C11 (amended): with k valid questions of difficulty D stored, s of them
\* matching the seen set, and a target t > k, the plan step returns exactly the
\* k - s unseen ones as usable questions of difficulty D and a shortfall of
\* t - (k - s) for D.
C11_ShortfallOfUnseenValid ==
    GenAt({"planned"}) =>
        \A d \in Difficulties :
           LET k == Cardinality(ValidRows(d))
               unseen == UnseenValidRows(d)
           IN Target(d) > k =>
                 /\ Cardinality(Usable(d)) = Cardinality(unseen)
                 /\ {ret.partial_questions[i].question : i \in Usable(d)}
                      = {questions[i].question : i \in unseen}
                 /\ ret.missing_counts[d] = Target(d) - Cardinality(unseen)

\* a plan over a store with an invalidated question where a difficulty has
\* fewer valid questions than its target, two or more, one of them seen
C11_Witness ==
    /\ GenAt({"planned"})
    /\ \E i \in DOMAIN questions : questions[i].is_valid = Some(0)
    /\ \E d \in Difficulties :
          /\ Target(d) > Cardinality(ValidRows(d))
          /\ Cardinality(ValidRows(d)) >= 2
          /\ Cardinality(UnseenValidRows(d)) = Cardinality(ValidRows(d)) - 1
          /\ ret.missing_counts[d] = Target(d) - Cardinality(ValidRows(d)) + 1

\* C12: a sampled store question whose text, lower-cased and trimmed, equals a
\* lower-cased and trimmed text of the seen set is not among the usable
\* questions, and the shortfall is computed from the usable questions only.
C12_SeenNotUsable ==
    GenAt({"planned", "prompted", "returned"}) =>
        /\ \A i \in DOMAIN ret.sampled :
              Normalized(ret.sampled[i].question) \in Seen =>
                 \A j \in DOMAIN ret.partial_questions :
                    ret.partial_questions[j].question # ret.sampled[i].question
        /\ \A d \in Difficulties :
              ret.missing_counts[d] = Max(0, Target(d) - Cardinality(Usable(d)))

\* the sample holds a question whose stored text differs from the seen text in
\* case and blanks, and another question that stays usable
C12_Witness ==
    /\ GenAt({"planned"})
    /\ ret.partial_questions # <<>>
    /\ \E i \in DOMAIN ret.sampled :
          /\ Normalized(ret.sampled[i].question) \in Seen
          /\ \A j \in DOMAIN ret.previous_questions :
                ret.previous_questions[j] # ret.sampled[i].question

\* C13: no question of the list generate_questions returns has a text that,
\* lower-cased and trimmed, is in the user's seen set.
C13_NothingSeenReturned ==
    GenAt({"returned"}) =>
        \A i \in DOMAIN ret.result : Normalized(ret.result[i].question) \notin Seen

\* C14: a request that returns questions returns exactly num_questions of them.
C14_ExactlyRequestedCount ==
    GenAt({"returned"}) /\ ret.result # <<>> => Len(ret.result) = ret.num_questions

ExampleCase ==
    /\ Cardinality(ValidRows("Easy")) = 5
    /\ Cardinality(ValidRows("Medium")) = 3
    /\ Cardinality(ValidRows("Hard")) = 0
    /\ ret.num_questions = 10
    /\ ret.difficulty_distribution = [Easy |-> 50, Medium |-> 30, Hard |-> 20]
    /\ \A d \in Difficulties : UnseenValidRows(d) = ValidRows(d)

\* C15: the prompt asks for exactly the sum of the shortfall, with the
\* shortfall of each difficulty as that difficulty's count.  With 5 Easy, 3
\* Medium and no Hard valid questions stored (none of them seen) and 10 asked
\* at 50/30/20, the plan has 8 usable questions and shortfall 0/0/2, and the
\* request prompts for exactly 2 Hard questions whenever it can prompt.
C15_PromptAsksForShortfall ==
    /\ GenAt({"prompted"}) =>
          LET p == Val(ret.prompt) IN
          /\ \A d \in Difficulties :
                /\ p[d] = ret.missing_counts[d]
                /\ p[d] = Max(0, Target(d) - Cardinality(Usable(d)))
          /\ p.total_to_generate = p["Easy"] + p["Medium"] + p["Hard"]
          /\ p.total_to_generate > 0
    /\ GenAt({"planned", "prompted", "returned"}) /\ ExampleCase =>
          /\ Len(ret.partial_questions) = 8
          /\ ret.missing_counts = [Easy |-> 0, Medium |-> 0, Hard |-> 2]
          /\ ret.pc = "prompted" =>
                Val(ret.prompt) = [total_to_generate |-> 2, Easy |-> 0,
                                   Medium |-> 0, Hard |-> 2]
          /\ ret.pc = "returned" => ~ret.api_key

C15_Witness ==
    /\ GenAt({"prompted"})
    /\ ExampleCase
    /\ Val(ret.prompt).Hard = 2

\* C16 (as stated): each difficulty with target > 0 is sampled with
\* limit = target * multiplier, the target being that of num_questions.
C16_LimitIsTargetTimesMultiplier ==
    GenAt({"planned"}) =>
        \A d \in Difficulties :
           Target(d) > 0 =>
              ret.limits[d] = Some(Target(d) * (IF Seen # {} THEN 2 ELSE 1))

\* C16 (amended): with multiplier 2 for a non-empty seen set and 1 otherwise,
\* each difficulty whose target c for the total num_questions * multiplier is
\* positive is sampled with limit = min(c, valid questions stored for it), and
\* no other difficulty is sampled.
C16_LimitIsMultipliedTargetOrAvailable ==
    GenAt({"planned"}) =>
        LET multiplier == IF Seen # {} THEN 2 ELSE 1
            pct == ret.difficulty_distribution
            total == ret.num_questions * multiplier
            easy == (total * pct["Easy"]) \div 100
            medium == (total * pct["Medium"]) \div 100
            c == [Easy |-> easy, Medium |-> medium, Hard |-> total - easy - medium]
        IN \A d \in Difficulties :
              IF c[d] > 0
              THEN ret.limits[d] = Some(Min(c[d], Cardinality(ValidRows(d))))
              ELSE ret.limits[d] = None

\* a non-empty seen set, and a difficulty sampled with a limit above twice its
\* target because enough valid questions are stored
C16_Witness ==
    /\ GenAt({"planned"})
    /\ Seen # {}
    /\ \E d \in Difficulties :
          /\ ret.limits[d] # None
          /\ Val(ret.limits[d]) > 2 * Target(d)
          /\ Target(d) > 0

\* the index a correct_answer value stands for: a letter A-D in either case is
\* 0-3, a numeric string or an integer is its value
ExpectedIndex(v) ==
    IF v.tag = "int" THEN v.n
    ELSE CASE v.s \in {"A", "a"} -> 0
           [] v.s \in {"B", "b"} -> 1
           [] v.s \in {"C", "c"} -> 2
           [] v.s \in {"D", "d"} -> 3
           [] v.s = "2" -> 2

Generated == GenAt({"returned"}) /\ ret.outcome = "generated"

BackendItems == Val(ret.response).items

\* C17: a generated record's correct_answer given as a letter A-D in either
\* case becomes the integer 0-3, and any other value, a numeric string such as
\* "2" included, becomes its integer value.
C17_AnswerNormalized ==
    Generated =>
        \A i \in DOMAIN ret.generated_questions :
           ret.generated_questions[i].correct_answer
              = ExpectedIndex(BackendItems[i].correct_answer)

InRange(v) == v.tag # "none" /\ ExpectedIndex(v) \in 0..3

\* C18: a generated record whose correct_answer is absent or is not an index in
\* 0..3 makes the generation fail, and no returned question has a
\* correct_answer outside 0..3.
C18_OutOfRangeFails ==
    GenAt({"returned"}) =>
        /\ \A i \in DOMAIN ret.result : ret.result[i].correct_answer \in 0..3
        /\ ret.response # None /\ Val(ret.response).kind \in {"list", "object"} =>
              ((\E i \in DOMAIN BackendItems : ~InRange(BackendItems[i].correct_answer))
                  => ret.outcome = "error" /\ ret.result = <<>>)

\* C19: every stored question has exactly 4 options and a correct-option index
\* in 0..3, which therefore references one of them.
C19_FourOptionsAndIndex ==
    \A i \in DOMAIN questions :
       /\ questions[i].correct_answer \in 0..3
       /\ Len(questions[i].options) = 4
       /\ questions[i].correct_answer + 1 \in DOMAIN questions[i].options

\* C20: when the backend answers with m records where n were asked for, the
\* generated list is the first min(m, n) of them in the backend's order.
C20_TruncatedNeverPadded ==
    Generated =>
        LET m == Len(BackendItems)
            n == Val(ret.prompt).total_to_generate
            used == ret.generated_questions
        IN /\ Len(used) = Min(m, n)
           /\ \A i \in DOMAIN used :
                 /\ used[i].question = BackendItems[i].question
                 /\ used[i].difficulty = BackendItems[i].difficulty
                 /\ used[i].options = BackendItems[i].options

\* more records than asked for
C20_Witness ==
    /\ Generated
    /\ Len(BackendItems) = 2
    /\ Val(ret.prompt).total_to_generate = 1
    /\ Len(ret.generated_questions) = 1
    /\ ret.generated_questions[1].question = BackendItems[1].question
    /\ BackendItems[2].question # BackendItems[1].question

\* a backend record that save_questions would insert into an empty table
WellFormed(q) ==
    /\ q.correct_answer.tag = "int"
    /\ CheckConstraints([difficulty |-> q.difficulty, correct_answer |-> q.correct_answer.n])

\* the step of Respond that ends in a generated list
RespondStep ==
    /\ GenAt({"prompted"})
    /\ ret'.op = "generate_questions" /\ ret'.pc = "returned"
    /\ ret'.outcome = "generated"

NewTexts ==
    {questions'[i].question : i \in DOMAIN questions'}
       \ {questions[i].question : i \in DOMAIN questions}

\* C21 (as stated): when the backend answers with more records than asked for,
\* the whole batch is persisted: every well-formed record of the answer has a
\* row afterwards, also those cut from the returned list.
C21_PersistAll ==
    [][RespondStep =>
          LET items == Val(ret'.response).items IN
          \A i \in DOMAIN items :
             WellFormed(items[i]) =>
                RowsWithKey(questions', ret.scope, items[i].question) # {}]_vars

\* C21 (amended): the list is truncated first and only the truncated list is
\* persisted: every well-formed record among the first min(m, n) has a row
\* afterwards, and no text is added to the store that is not among them.
C21_PersistTruncated ==
    [][RespondStep =>
          LET used == ret'.generated_questions
              items == Val(ret'.response).items
          IN /\ NewTexts \subseteq {used[i].question : i \in DOMAIN used}
             /\ \A i \in DOMAIN used :
                   WellFormed(items[i]) =>
                      RowsWithKey(questions', ret.scope, used[i].question) # {}]_vars

\* two well-formed records were answered where one was asked for: the first has
\* a row, the second has none
C21_Witness ==
    /\ Generated
    /\ Len(BackendItems) = 2
    /\ Val(ret.prompt).total_to_generate = 1
    /\ \A i \in 1..2 : WellFormed(BackendItems[i])
    /\ RowsWithKey(questions, ret.scope, BackendItems[1].question) # {}
    /\ RowsWithKey(questions, ret.scope, BackendItems[2].question) = {}

\* C22: when generate_questions returns, every generated question of the
\* returned list has a stored row with its (grade, board, topic, text).
C22_ReturnedGeneratedIsStored ==
    Generated =>
        \A i \in DOMAIN ret.result :
           (\E j \in DOMAIN ret.generated_questions :
               ret.generated_questions[j] = ret.result[i])
              => RowsWithKey(questions, ret.scope, ret.result[i].question) # {}

\* C23: a failed generation (no backend, the call raises, the answer does not
\* parse) hands the caller the store-sourced questions when there are any, and
\* the empty list only when there are none.
C23_FailureReturnsPartial ==
    GenAt({"returned"}) /\ ret.outcome \in {"no_key", "error", "json_error"} =>
        ret.result = ret.partial_questions

\* C24: a record that save_questions could not insert for another reason than
\* its key being stored already shows in the call's outcome as an error, apart
\* from the skipped count.
C24_FailureSurfaced ==
    \A s \in Sessions :
       sess[s].pc = "done" /\ sess[s].op = "save_questions" =>
          ((\E i \in DOMAIN sess[s].qs : ~Insertable(s, sess[s].qs[i].question))
              => sess[s].raised)

----------------------------------------------------------------------------
(* Properties of defect reports in a quiz session *)

Calls(idx) == Cardinality({k \in DOMAIN verify_log : verify_log[k] = idx})

StoredRows(text) ==
    {k \in DOMAIN questions :
        /\ ~IsNone(session_state.quiz_grade)
        /\ SameKey(questions[k], Val(session_state.quiz_grade),
                   Val(session_state.quiz_board), Val(session_state.quiz_topic), text)}

\* C25: between two resets of the quiz, verify_error_report is called once
\* for every question a report was submitted for and never for another one:
\* a call is made only for a question without a submitted report and leaves
\* the question with one, whatever the verification did, and the set of
\* questions with a submitted report only shrinks when the quiz is reset.
C25_OneVerificationPerQuestion ==
    /\ [](\A idx \in 0..Len(session_state.questions) :
            Calls(idx) = IF idx \in session_state.submitted_reports THEN 1 ELSE 0)
    /\ [][verify_log' # verify_log =>
            \/ verify_log' = <<>>
            \/ \E idx \in 0..Len(session_state.questions) :
                /\ verify_log' = Append(verify_log, idx)
                /\ idx \notin session_state.submitted_reports
                /\ idx \in session_state'.submitted_reports]_vars
    /\ [][~(session_state.submitted_reports \subseteq session_state'.submitted_reports) =>
            /\ session_state'.submitted_reports = {}
            /\ session_state'.reported_questions = {}
            /\ session_state'.user_answers = <<>>]_vars

\* two reports in one quiz: the first verified, the second one raised
C25_Witness ==
    /\ verify_log = <<0, 1>>
    /\ session_state.reported_questions = {0}
    /\ session_state.submitted_reports = {0, 1}
    /\ session_state.report_verification_results = {<<0, TRUE>>}

\* C26: a submitted report whose verification returns false or raises leaves
\* the table as it was.
C26_RejectedReportLeavesStore ==
    [][\A idx \in 0..Len(session_state.questions) :
         verify_log' = Append(verify_log, idx)
           /\ idx \notin session_state'.reported_questions
           => questions' = questions]_vars

\* a report on a stored, valid question was answered NO, and another one raised
C26_Witness ==
    /\ Len(session_state.questions) = 2
    /\ session_state.submitted_reports = {0, 1}
    /\ session_state.reported_questions = {}
    /\ session_state.report_verification_results = {<<0, FALSE>>}
    /\ \A i \in 1..2 :
         \E k \in StoredRows(session_state.questions[i].question) :
            questions[k].is_valid = Some(1)

\* the points of the questions the session has left behind
RECURSIVE Earned(_, _)
Earned(ss, n) ==
    IF n = 0 THEN 0
    ELSE Earned(ss, n - 1)
         + (IF (n - 1) \notin ss.reported_questions
               /\ ss.user_answers[n] = ss.questions[n].correct_answer
            THEN SCORING(ss.questions[n].difficulty) ELSE 0)

QuestionsLeft(ss) ==
    IF ss.quiz_completed THEN Len(ss.questions) ELSE ss.current_question_index

\* the scoring half of C27: the score is the sum of the weights of the
\* questions left behind that were answered correctly and not reported, and
\* the total leaves out the weight of every reported question
ScoreExcludesReported ==
    /\ session_state.score = Earned(session_state, QuestionsLeft(session_state))
    /\ total_possible(session_state) =
         SeqSum([i \in DOMAIN session_state.questions |->
                    IF (i - 1) \in session_state.reported_questions THEN 0
                    ELSE SCORING(session_state.questions[i].difficulty)])

\* C27: every question with a verified report has a row in the store, and
\* that row is invalid.
C27_VerifiedIsInvalidInStore ==
    \A idx \in session_state.reported_questions :
        LET rows == StoredRows(session_state.questions[idx + 1].question)
        IN rows # {} /\ \A k \in rows : questions[k].is_valid = Some(0)

----------------------------------------------------------------------------
(* Properties of the user history *)

EntriesOf(file, u) == IF IsNone(file[u]) THEN <<>> ELSE Val(file[u])
IsPrefix(a, b) == Len(a) <= Len(b) /\ SubSeq(b, 1, Len(a)) = a

\* the call of session s completes having kept every entry the file held
\* when it was opened for writing, and having added one entry
AppendsOne(s) ==
    (sess[s].pc = "opened" /\ sess'[s].pc = "done") =>
       /\ \A u \in Users :
             IsPrefix(EntriesOf(sess[s].before, u), EntriesOf(user_history', u))
       /\ HistoryLen(user_history') = HistoryLen(sess[s].before) + 1

\* C28 (as stated): every save_user_quiz call, also one whose load and save
\* steps interleave with those of another session, keeps every entry written
\* before it unmodified and adds exactly one entry.
C28_AppendOnlyInterleaved ==
    [][\A s \in Sessions : AppendsOne(s)]_vars

\* C28 (amended): a save_user_quiz call that no other call overlaps keeps
\* every entry written before it unmodified and adds exactly one entry.
C28_AppendOnlyOneAtATime ==
    [][\A s \in Sessions :
         (sess[s].pc = "opened" /\ ~sess[s].overlapped) => AppendsOne(s)]_vars

\* a call that ran alone added a second quiz to a user's list
C28_Witness ==
    \E s \in Sessions :
        /\ sess[s].pc = "done" /\ ~sess[s].overlapped
        /\ Len(EntriesOf(sess[s].before, sess[s].user_name)) = 1
        /\ Len(EntriesOf(user_history, sess[s].user_name)) = 2

\* the topics that differ in case only
SameTopic(a, b) == a = b \/ {a, b} = {"math", "Math"}

RECURSIVE Flatten(_)
Flatten(lists) == IF lists = <<>> THEN <<>> ELSE Head(lists) \o Flatten(Tail(lists))

\* C29: the result is the concatenation, in file order, of the question
\* texts of the quizzes stored under exactly this user name whose grade and
\* board equal the request and whose topic equals it up to case; a user
\* without a key gets the empty list.
C29_PreviousOfUserAndScope ==
    ret.op = "get_user_previous_questions" =>
       LET matching == SelectSeq(EntriesOf(user_history, ret.user_name), LAMBDA quiz :
                          /\ quiz.grade = ret.scope.grade
                          /\ quiz.board = ret.scope.board
                          /\ SameTopic(quiz.topic, ret.scope.topic))
       IN ret.result = Flatten([i \in DOMAIN matching |-> matching[i].questions])

\* two quizzes of "ann" on math and Math are accumulated, those of "Ann" and
\* of other boards are left out
C29_Witness ==
    /\ ret.op = "get_user_previous_questions"
    /\ ret.user_name = "ann" /\ ret.scope = ScopeA
    /\ ret.result = <<"q3", "q1", "q2">>
    /\ ~IsNone(user_history["Ann"])
    /\ \E k \in DOMAIN EntriesOf(user_history, "Ann") :
          EntriesOf(user_history, "Ann")[k].board = "ICSE"

----------------------------------------------------------------------------
(* Properties of get_questions_by_difficulty_distribution *)

ValidOf(d) ==
    Cardinality({i \in DOMAIN questions :
                   /\ questions[i].grade = ret.scope.grade
                   /\ questions[i].board = ret.scope.board
                   /\ questions[i].topic = ret.scope.topic
                   /\ questions[i].difficulty = d
                   /\ questions[i].is_valid = Some(1)})

TargetOf(d) ==
    LET n == ret.num_questions
        easy == (n * ret.difficulty_distribution["Easy"]) \div 100
        medium == (n * ret.difficulty_distribution["Medium"]) \div 100
    IN CASE d = "Easy" -> easy
         [] d = "Medium" -> medium
         [] OTHER -> n - easy - medium

ReturnedOf(d) == Cardinality({k \in DOMAIN ret.result : ret.result[k].difficulty = d})

\* C30: if for every difficulty the store holds at least the target number
\* of valid questions, the call returns num_questions questions, the target
\* number of each difficulty.
C30_TargetsReturned ==
    (/\ ret.op = "get_questions_by_difficulty_distribution"
     /\ \A d \in Difficulties : ValidOf(d) >= TargetOf(d)) =>
       /\ Len(ret.result) = ret.num_questions
       /\ \A d \in Difficulties : ReturnedOf(d) = TargetOf(d)

\* 10 questions at 50/30/20 from a store of 5 Easy, 3 Medium and 2 Hard ones
C30_Witness ==
    /\ ret.op = "get_questions_by_difficulty_distribution"
    /\ questions = FullStore
    /\ ret.num_questions = 10
    /\ ReturnedOf("Easy") = 5 /\ ReturnedOf("Medium") = 3 /\ ReturnedOf("Hard") = 2

\* the call met a difficulty with a positive target and fewer valid questions
ShortOf(d) == TargetOf(d) > 0 /\ ValidOf(d) < TargetOf(d)

----------------------------------------------------------------------------
(* Order of the steps of a quiz request *)

\* total_missing, as the request computed it from the store
TotalShortfall ==
    ret.missing_counts["Easy"] + ret.missing_counts["Medium"] + ret.missing_counts["Hard"]

\* the step that reads the store for the shortfall calculation
StoreRead == GenAt({"called"}) /\ ret'.op = "generate_questions" /\ ret'.pc = "planned"

\* the step in which the backend is called
BackendCall ==
    /\ ret.op = "generate_questions" /\ IsNone(ret.response)
    /\ ret'.op = "generate_questions" /\ ~IsNone(ret'.response)

\* a step of a request that changes the store
Persistence == ret.op = "generate_questions" /\ questions' # questions

\* C32: within one quiz request the store is read for the shortfall before
\* the backend is called, and the generated records are persisted only from
\* what the backend answered; the backend is called at most once per request
\* and never when the total shortfall is zero.
C32_ReadsThenBackendThenPersist ==
    [][/\ StoreRead => /\ IsNone(ret.response)
                       /\ questions' = questions
       /\ BackendCall => /\ ret.pc = "prompted"
                         /\ TotalShortfall > 0
                         /\ Val(ret.prompt).total_to_generate = TotalShortfall
                         /\ ret'.sampled = ret.sampled
                         /\ ret'.partial_questions = ret.partial_questions
                         /\ ret'.missing_counts = ret.missing_counts
       /\ Persistence =>
             /\ BackendCall
             /\ \A i \in DOMAIN questions' \ DOMAIN questions :
                   \E k \in DOMAIN Val(ret'.response).items :
                      Val(ret'.response).items[k].question = questions'[i].question
       /\ (ret.op = "generate_questions" /\ ~IsNone(ret.response)) =>
             ret' \in {ret, NoCall}
      ]_vars

\* a request that read a question from the store, called the backend for the
\* rest and stored what it answered
C32_Witness ==
    /\ GenAt({"returned"}) /\ ret.outcome = "generated"
    /\ ret.sampled # <<>>
    /\ TotalShortfall = 1
    /\ ret.generated_questions # <<>>
    /\ \E i \in DOMAIN questions :
          /\ questions[i].question = ret.generated_questions[1].question
          /\ \A k \in DOMAIN ret.sampled : ret.sampled[k].question # questions[i].question

----------------------------------------------------------------------------
(* Properties of the list a quiz request returns *)

\* the number of questions of difficulty d in the returned list
InResult(d) == Cardinality({k \in DOMAIN ret.result : ret.result[k].difficulty = d})

\* C33: when the store alone covers a request (total shortfall 0), a request
\* with a non-empty seen set included, the returned list holds exactly the
\* target number of Easy, Medium and Hard questions for the requested total.
C33_StoreCoversGivesTargets ==
    (GenAt({"returned"}) /\ ret.outcome = "store" /\ TotalShortfall = 0) =>
        \A d \in Difficulties : InResult(d) = Target(d)

\* C34: the list a quiz request returns never holds two questions with the
\* same question text, also when the backend generates a text that is
\* among the store-sourced questions of the request.
C34_NoDuplicateTexts ==
    GenAt({"returned"}) =>
        \A i, j \in DOMAIN ret.result :
            i # j => ret.result[i].question # ret.result[j].question

\* the texts marked invalid in the store for the scope of the request; a
\* request invalidates nothing, so these are the texts that were invalid
\* when it started
InvalidTexts ==
    {questions[i].question :
        i \in {j \in RowsOf(questions, ret.scope) : questions[j].is_valid = Some(0)}}

\* C35: no list a quiz request returns holds a question whose (grade, board,
\* topic, question text) was marked invalid in the store when the request
\* started, also when the backend generates the same text again.
C35_InvalidNeverServed ==
    GenAt({"returned"}) =>
        \A k \in DOMAIN ret.result : ret.result[k].question \notin InvalidTexts

----------------------------------------------------------------------------
(* Properties of the sampling calls while another session writes *)

\* the reading session's call has returned
Sampled(op) == sess[Reader].pc = "done" /\ sess[Reader].op = op

\* the number of questions of difficulty d the call returned
SampledOf(d) ==
    Cardinality({k \in DOMAIN sess[Reader].all_questions :
                   sess[Reader].all_questions[k].difficulty = d})

\* C36: for get_partial_questions_and_missing_counts running while the other
\* session calls mark_question_invalid or save_questions on the same grade,
\* board and topic, in every interleaving and for each difficulty D the
\* number of returned questions of D plus missing[D] is the target for D, and
\* the number returned is at most the target.
C36_ReturnedPlusMissingIsTarget ==
    Sampled("get_partial_questions_and_missing_counts") =>
        \A d \in Difficulties :
            /\ SampledOf(d) + sess[Reader].missing_counts[d] = sess[Reader].counts[d]
            /\ SampledOf(d) <= sess[Reader].counts[d]

\* C37: a non-empty result of get_questions_by_difficulty_distribution holds
\* exactly num_questions questions, the target number of each difficulty,
\* also when the other session invalidates questions between the count and
\* the sample.
C37_AllOrNothing ==
    (Sampled("get_questions_by_difficulty_distribution")
       /\ sess[Reader].all_questions # <<>>) =>
        /\ Len(sess[Reader].all_questions) = sess[Reader].num_questions
        /\ \A d \in Difficulties : SampledOf(d) = sess[Reader].counts[d]

----------------------------------------------------------------------------
(* Progress through the questions of a quiz *)

\* the current question has an answer and its coaching is complete or skipped
AnsweredCurrent(ss) ==
    /\ ss.show_feedback /\ ss.coaching_complete
    /\ Len(ss.user_answers) = ss.current_question_index + 1
    /\ ss.user_answers[ss.current_question_index + 1] # -1

\* the step moves to the next question, or ends the quiz
Advances == session_state'.current_question_index > session_state.current_question_index
Completes == ~session_state.quiz_completed /\ session_state'.quiz_completed

\* C38: in any sequence of quiz UI events current_question_index advances
\* by one question at a time, and only after the current question was
\* answered (coaching completed or skipped) or had a verified report; it
\* stays below len(questions) while the quiz is running; when the quiz is
\* completed user_answers has exactly one entry per question, which is -1 for
\* a question reported before it was answered.
C38_OneQuestionAtATime ==
    /\ [](LET ss == session_state
          IN /\ (ss.quiz_started /\ ~ss.quiz_completed) =>
                    ss.current_question_index < Len(ss.questions)
             /\ ss.quiz_completed =>
                    /\ Len(ss.user_answers) = Len(ss.questions)
                    /\ \A i \in DOMAIN ss.user_answers :
                          ss.user_answers[i] = -1 => (i - 1) \in ss.reported_questions)
    /\ [][LET ss == session_state
          IN /\ Advances =>
                  /\ session_state'.current_question_index = ss.current_question_index + 1
                  /\ \/ AnsweredCurrent(ss)
                     \/ ss.current_question_index \in ss.reported_questions
             /\ ((Advances \/ Completes) /\ ~ss.show_feedback) =>
                  /\ ss.current_question_index \in ss.reported_questions
                  /\ session_state'.user_answers = Append(ss.user_answers, -1)
             /\ ((Advances \/ Completes) /\ ss.show_feedback) =>
                  session_state'.user_answers = ss.user_answers
         ]_vars

\* a completed quiz of two questions: the first reported before it was
\* answered, the second answered
C38_Witness ==
    /\ session_state.quiz_completed
    /\ Len(session_state.questions) = 2
    /\ session_state.current_question_index = 1
    /\ session_state.reported_questions = {0}
    /\ Len(session_state.user_answers) = 2
    /\ session_state.user_answers[1] = -1
    /\ session_state.user_answers[2] # -1

====
